---- MODULE Spec2Model ----
(***************************************************************************)
(* Session coordinator of rainett/monopoly: the game Engine                *)
(* (game/engine.go) over the SQLite store (store/store.go), with every     *)
(* store call one atomic step, so that Engine commands issued by           *)
(* different goroutines interleave exactly where the Go code lets them.    *)
(***************************************************************************)
EXTENDS Integers, Sequences, FiniteSets, TLC

\* ---------------------------------------------------------------- bounds
NumProcs == 2        \* goroutines that run Engine commands at the same time
NumUsers == 3        \* user ids 1..NumUsers of the concurrent callers
MaxCalls == 6        \* Engine commands the concurrent callers issue
MaxGames == 1        \* games that Lobby.CreateGame may create
MaxReq == 2          \* largest maxPlayers a caller asks CreateGame for
JoinUsers == 2       \* user ids of the callers that only join
JoinCalls == 2       \* Join commands the callers that only join issue
SeqUsers == 2        \* user ids of the serial caller
SeqCalls == 6        \* Engine commands the serial caller issues
RoundUsers == 3      \* user ids of the callers of one session's round
RoundCalls == 10     \* Engine commands issued on that one session
FlagUsers == 2       \* user ids of the callers that race on one session's turn
FlagCalls == 5       \* Engine commands those callers issue
NumConns == 2        \* websocket connections to game rooms
NumRooms == 2        \* game ids that connections ask a Room for
SendCap == 1         \* messages a send channel buffers (256 in the program)
MaxMsgs == 2         \* messages broadcast
MaxRemoves == 3      \* calls of Room.RemoveClient
CastProcs == 1       \* goroutines that broadcast to the Rooms at the same time
CastRooms == 1       \* game ids of the Rooms that are broadcast to
LobbyUsers == 2      \* user ids that open connections to the lobby

Procs == 1..NumProcs
GameIDs == 0..MaxGames

\* ------------------------------------------------------- program constants
StatusWaiting == "waiting"
StatusInProgress == "in_progress"
StatusFinished == "finished"

ErrGameFull == "game is full"
ErrGameStarted == "game already started"
ErrNotYourTurn == "not your turn"
ErrGameNotStarted == "game not started"
ErrGameNotFound == "game not found"
ErrAlreadyInGame == "already in game"
ErrUserNotInGame == "user not in game"
\* store.JoinGame's wrapped driver error (a failed INSERT)
ErrStoreJoin == "failed to join game"
ErrStore == "store failure"

MinPlayers == 2
MaxPlayersCap == 8
StartPlayers == 2

\* ------------------------------------------------------------------ state
VARIABLES
    games,        \* table games: sequence indexed by id of [status, maxPlayers]
    gamePlayers,  \* table game_players: set of rows
    pc,           \* per goroutine: the store call it is about to make
    call,         \* per goroutine: the Engine command it runs
    loc,          \* per goroutine: the locals the command still needs
    result,       \* per goroutine: what its last command returned
    advances,     \* per game: EndTurn calls that committed a turn change so far
    calls,        \* Engine commands issued so far
    script,       \* the commands a scripted caller issues, in order
    rooms,        \* Manager.rooms: game id -> index of its Room in roomList, 0 if none
    roomList,     \* every Room NewRoom has made: [gameID, clients]
    client,       \* per connection: its Client and where its handler stands
    bcast,        \* per goroutine: the Room.Broadcast it runs
    msgs,         \* messages broadcast so far
    removes,      \* Room.RemoveClient calls so far
    lobbyClients, \* LobbyManager.clients: user id -> its LobbyClient, 0 if none
    lclient,      \* per lobby connection: its LobbyClient and its read pump
    lbcast,       \* per goroutine: the LobbyManager.BroadcastUpdate it runs
    handler,      \* per goroutine: the request handler it runs around the Engine
    commits,      \* Engine commands that have written their change to the store
    saved         \* the store as it was when the command under way was issued

engineVars == <<games, gamePlayers, pc, call, loc, result, advances, calls, script>>

roomVars == <<rooms, roomList, client, bcast, msgs, removes>>

lobbyVars == <<lobbyClients, lclient, lbcast>>

vars == <<games, gamePlayers, pc, call, loc, result, advances, calls, script,
          rooms, roomList, client, bcast, msgs, removes,
          lobbyClients, lclient, lbcast, handler, commits, saved>>

hubVars == <<handler, commits>>

faultVars == <<saved>>

NoStore == [games |-> <<>>, gamePlayers |-> {}]

NilGame == [status |-> "nil", maxPlayers |-> 0]
NoCall == [op |-> "none", gameID |-> 0, userID |-> 0, isReady |-> FALSE]
NoLoc == [status |-> "", maxPlayers |-> 0, target |-> 0]
NoScript == [maxPlayers |-> 0, cmds |-> <<>>]
NoResult == [err |-> "", type |-> "", userID |-> 0, order |-> 0, isReady |-> FALSE,
             currentPlayerID |-> 0, previousPlayerID |-> 0, status |-> "",
             players |-> <<>>]

Failure(e) == [NoResult EXCEPT !.err = e]

\* ------------------------------------------------------------------ store
GetGame(gameID) ==
    IF gameID \in 1..Len(games) THEN games[gameID] ELSE NilGame

Rows(gameID) == {r \in gamePlayers : r.gameID = gameID}

IsOrdered_Any(s) == TRUE

IsOrdered(s) == \A i \in 1..(Len(s) - 1) : s[i].playerOrder <= s[i + 1].playerOrder

\* SELECT ... WHERE game_id = ? ORDER BY player_order: every listing of the
\* game's rows that is sorted by player_order (rows with equal player_order
\* come in an order SQL leaves open).
GetGamePlayers(gameID) ==
    LET rows == Rows(gameID)
        n == Cardinality(rows)
    IN {s \in [1..n -> rows] :
            /\ \A i, j \in 1..n : i # j => s[i] # s[j]
            /\ IsOrdered(s)}

\* PRIMARY KEY (game_id, user_id)
PrimaryKeyFree_NoKey(gameID, userID) == TRUE

PrimaryKeyFree(gameID, userID) ==
    \A r \in gamePlayers : ~(r.gameID = gameID /\ r.userID = userID)

\* INSERT INTO game_players (game_id, user_id, player_order): the ready and
\* turn columns take their DEFAULT 0. The table is a multiset of rows: the k-th
\* row of one (game_id, user_id) carries copy = k, so that two equal rows
\* would stay two rows.
NewRow(gameID, userID, playerOrder) ==
    [gameID |-> gameID, userID |-> userID, playerOrder |-> playerOrder,
     isReady |-> FALSE, isCurrentTurn |-> FALSE,
     copy |-> Cardinality({r \in gamePlayers : r.gameID = gameID /\ r.userID = userID})]

UpdatePlayerReady(gameID, userID, isReady) ==
    {IF r.gameID = gameID /\ r.userID = userID
        THEN [r EXCEPT !.isReady = isReady] ELSE r : r \in gamePlayers}

UpdateGameStatus_Lost(gameID, status) == games

UpdateGameStatus(gameID, status) ==
    IF gameID \in 1..Len(games)
        THEN [games EXCEPT ![gameID].status = status] ELSE games

UpdateCurrentTurn_AllGames(gameID, userID) ==
    {[r EXCEPT !.isCurrentTurn = (r.gameID = gameID /\ r.userID = userID)] :
        r \in gamePlayers}

UpdateCurrentTurn_NoClear(gameID, userID) ==
    {IF r.gameID = gameID /\ r.userID = userID
        THEN [r EXCEPT !.isCurrentTurn = TRUE] ELSE r : r \in gamePlayers}

UpdateCurrentTurn(gameID, userID) ==
    {IF r.gameID = gameID
        THEN [r EXCEPT !.isCurrentTurn = (r.userID = userID)] ELSE r : r \in gamePlayers}

\* ----------------------------------------------------------------- engine
\* GetGameState's loop: the last listed player with the turn flag, 0 if none
CurrentPlayerID_First(players) ==
    IF players = <<>> THEN 0 ELSE players[1].userID

CurrentPlayerID(players) ==
    LET holders == {i \in 1..Len(players) : players[i].isCurrentTurn}
    IN IF holders = {} THEN 0
       ELSE players[CHOOSE i \in holders : \A j \in holders : j <= i].userID

IsMember(players, userID) == \E i \in 1..Len(players) : players[i].userID = userID

IndexOf(players, userID) ==
    IF IsMember(players, userID)
        THEN CHOOSE i \in 1..Len(players) :
                /\ players[i].userID = userID
                /\ \A j \in 1..(i - 1) : players[j].userID # userID
        ELSE 0

\* Lobby.CreateGame's clamp of the requested size
ClampMaxPlayers_NoCap(maxPlayers) ==
    IF maxPlayers < MinPlayers THEN MinPlayers ELSE maxPlayers

ClampMaxPlayers(maxPlayers) ==
    IF maxPlayers < MinPlayers THEN MinPlayers
    ELSE IF maxPlayers > MaxPlayersCap THEN MaxPlayersCap
    ELSE maxPlayers

\* Engine.JoinGame's checks on the state it read, "" when the join may proceed
JoinCheck_MemberFirst(status, maxPlayers, players, userID) ==
    IF status # StatusWaiting THEN ErrGameStarted
    ELSE IF IsMember(players, userID) THEN ErrAlreadyInGame
    ELSE IF Len(players) >= maxPlayers THEN ErrGameFull
    ELSE ""

JoinCheck_OffByOne(status, maxPlayers, players, userID) ==
    IF status # StatusWaiting THEN ErrGameStarted
    ELSE IF Len(players) > maxPlayers THEN ErrGameFull
    ELSE IF IsMember(players, userID) THEN ErrAlreadyInGame
    ELSE ""

JoinCheck(status, maxPlayers, players, userID) ==
    IF status # StatusWaiting THEN ErrGameStarted
    ELSE IF Len(players) >= maxPlayers THEN ErrGameFull
    ELSE IF IsMember(players, userID) THEN ErrAlreadyInGame
    ELSE ""

\* Engine.SetReady's start condition on the state it re-read
AllReady_NoMinimum(players) == \A i \in 1..Len(players) : players[i].isReady

AllReady(players) ==
    /\ Len(players) >= StartPlayers
    /\ \A i \in 1..Len(players) : players[i].isReady

\* Engine.SetReady: firstPlayer := state.Players[0]
FirstPlayer_Last(players) == players[Len(players)].userID

FirstPlayer(players) == players[1].userID

\* Engine.EndTurn: nextIdx := (currentIdx + 1) % len(state.Players), 0-based
NextIdx_NoWrap(currentIdx, n) == IF currentIdx + 1 < n THEN currentIdx + 1 ELSE currentIdx

NextIdx(currentIdx, n) == (currentIdx + 1) % n

NextPlayer(players, userID) ==
    players[NextIdx(IndexOf(players, userID) - 1, Len(players)) + 1].userID

\* -------------------------------------------------------- goroutine steps
Finish(p, r) ==
    /\ pc' = [pc EXCEPT ![p] = "done"]
    /\ result' = [result EXCEPT ![p] = r]
    /\ loc' = [loc EXCEPT ![p] = NoLoc]

Goto(p, label, l) ==
    /\ pc' = [pc EXCEPT ![p] = label]
    /\ loc' = [loc EXCEPT ![p] = l]
    /\ UNCHANGED result

InFlight(p) == pc[p] \notin {"idle", "done"}

Ops == {"Join", "SetReady", "EndTurn", "GetState"}

Commands(ops, users) ==
    {c \in [op : ops, gameID : GameIDs, userID : users, isReady : BOOLEAN] :
        /\ (c.op # "SetReady" => ~c.isReady)
        /\ (c.op # "GetState" => c.gameID > 0)
        /\ (c.op = "GetState" => c.userID = 1)}

\* A goroutine enters an Engine command; GetGameState rejects gameID <= 0
\* before it reads the store.
Begin(p, c) ==
    /\ ~InFlight(p)
    /\ call' = [call EXCEPT ![p] = c]
    /\ calls' = calls + 1
    /\ IF c.gameID <= 0
          THEN Finish(p, Failure(ErrGameNotFound))
          ELSE /\ pc' = [pc EXCEPT ![p] = "GetGame"]
               /\ result' = [result EXCEPT ![p] = NoResult]
               /\ loc' = [loc EXCEPT ![p] = NoLoc]
    /\ UNCHANGED <<games, gamePlayers, advances, script>>

\* Lobby.CreateGame + store.CreateGame
Create(maxPlayers) ==
    /\ games' = Append(games, [status |-> StatusWaiting,
                               maxPlayers |-> ClampMaxPlayers(maxPlayers)])
    /\ UNCHANGED <<gamePlayers, pc, call, loc, result, advances, calls, script>>

\* GetGameState, first half: store.GetGame
ReadGame(p) ==
    /\ pc[p] = "GetGame"
    /\ LET game == GetGame(call[p].gameID) IN
         IF game = NilGame
            THEN Finish(p, Failure(ErrGameNotFound))
            ELSE Goto(p, "GetGamePlayers",
                      [NoLoc EXCEPT !.status = game.status, !.maxPlayers = game.maxPlayers])
    /\ UNCHANGED <<games, gamePlayers, call, advances, calls, script>>

\* Engine.GetGameState, second half: store.GetGamePlayers and the view
GetStateReadPlayers(p) ==
    /\ pc[p] = "GetGamePlayers"
    /\ call[p].op = "GetState"
    /\ \E players \in GetGamePlayers(call[p].gameID) :
         Finish(p, [NoResult EXCEPT !.type = "game_state",
                                    !.status = loc[p].status,
                                    !.order = Len(players),
                                    !.players = [i \in 1..Len(players) |->
                                                    players[i].userID],
                                    !.currentPlayerID = CurrentPlayerID(players)])
    /\ UNCHANGED <<games, gamePlayers, call, advances, calls, script>>

\* Engine.JoinGame: store.GetGamePlayers, then the checks of lines 75-90
JoinReadPlayers(p) ==
    /\ pc[p] = "GetGamePlayers"
    /\ call[p].op = "Join"
    /\ \E players \in GetGamePlayers(call[p].gameID) :
         LET e == JoinCheck(loc[p].status, loc[p].maxPlayers, players, call[p].userID) IN
         IF e # ""
            THEN Finish(p, Failure(e))
            ELSE Goto(p, "JoinGame", [NoLoc EXCEPT !.target = Len(players)])
    /\ UNCHANGED <<games, gamePlayers, call, advances, calls, script>>

\* Engine.JoinGame: store.JoinGame (the INSERT) and the player_joined event
JoinInsert(p) ==
    /\ pc[p] = "JoinGame"
    /\ IF PrimaryKeyFree(call[p].gameID, call[p].userID)
          THEN /\ gamePlayers' = gamePlayers \cup
                       {NewRow(call[p].gameID, call[p].userID, loc[p].target)}
               /\ Finish(p, [NoResult EXCEPT !.type = "player_joined",
                                             !.userID = call[p].userID,
                                             !.order = loc[p].target])
          ELSE /\ UNCHANGED gamePlayers
               /\ Finish(p, Failure(ErrStoreJoin))
    /\ UNCHANGED <<games, call, advances, calls, script>>

\* Engine.SetReady: store.GetGamePlayers, then the checks of lines 117-131
ReadyReadPlayers(p) ==
    /\ pc[p] = "GetGamePlayers"
    /\ call[p].op = "SetReady"
    /\ \E players \in GetGamePlayers(call[p].gameID) :
         IF loc[p].status # StatusWaiting THEN Finish(p, Failure(ErrGameStarted))
         ELSE IF ~IsMember(players, call[p].userID) THEN Finish(p, Failure(ErrUserNotInGame))
         ELSE Goto(p, "UpdatePlayerReady", NoLoc)
    /\ UNCHANGED <<games, gamePlayers, call, advances, calls, script>>

\* Engine.SetReady: store.UpdatePlayerReady
ReadyUpdate(p) ==
    /\ pc[p] = "UpdatePlayerReady"
    /\ gamePlayers' = UpdatePlayerReady(call[p].gameID, call[p].userID, call[p].isReady)
    /\ Goto(p, "GetGame2", NoLoc)
    /\ UNCHANGED <<games, call, advances, calls, script>>

\* Engine.SetReady's second GetGameState: store.GetGame (the status read here
\* is not looked at again)
ReadyReadGame2(p) ==
    /\ pc[p] = "GetGame2"
    /\ IF GetGame(call[p].gameID) = NilGame
          THEN Finish(p, Failure(ErrGameNotFound))
          ELSE Goto(p, "GetGamePlayers2", NoLoc)
    /\ UNCHANGED <<games, gamePlayers, call, advances, calls, script>>

\* Engine.SetReady's second GetGameState: store.GetGamePlayers, then lines 143-152
ReadyReadPlayers2(p) ==
    /\ pc[p] = "GetGamePlayers2"
    /\ \E players \in GetGamePlayers(call[p].gameID) :
         IF AllReady(players)
            THEN Goto(p, "UpdateGameStatus", [NoLoc EXCEPT !.target = FirstPlayer(players)])
            ELSE Finish(p, [NoResult EXCEPT !.type = "player_ready",
                                            !.userID = call[p].userID,
                                            !.isReady = call[p].isReady])
    /\ UNCHANGED <<games, gamePlayers, call, advances, calls, script>>

\* Engine.SetReady: store.UpdateGameStatus(gameID, StatusInProgress)
ReadySetStatus(p) ==
    /\ pc[p] = "UpdateGameStatus"
    /\ games' = UpdateGameStatus(call[p].gameID, StatusInProgress)
    /\ Goto(p, "StartTurn", loc[p])
    /\ UNCHANGED <<gamePlayers, call, advances, calls, script>>

\* Engine.SetReady: store.UpdateCurrentTurn(gameID, firstPlayer) and game_started
ReadySetTurn(p) ==
    /\ pc[p] = "StartTurn"
    /\ gamePlayers' = UpdateCurrentTurn(call[p].gameID, loc[p].target)
    /\ Finish(p, [NoResult EXCEPT !.type = "game_started",
                                  !.currentPlayerID = loc[p].target])
    /\ UNCHANGED <<games, call, advances, calls, script>>

\* Engine.EndTurn: store.GetGamePlayers, then lines 190-208
EndTurnReadPlayers(p) ==
    /\ pc[p] = "GetGamePlayers"
    /\ call[p].op = "EndTurn"
    /\ \E players \in GetGamePlayers(call[p].gameID) :
         IF loc[p].status # StatusInProgress THEN Finish(p, Failure(ErrGameNotStarted))
         ELSE IF CurrentPlayerID(players) # call[p].userID
                 THEN Finish(p, Failure(ErrNotYourTurn))
         ELSE Goto(p, "NextTurn", [NoLoc EXCEPT !.target = NextPlayer(players, call[p].userID)])
    /\ UNCHANGED <<games, gamePlayers, call, advances, calls, script>>

\* Engine.EndTurn: store.UpdateCurrentTurn(gameID, nextPlayer) and turn_changed
EndTurnSetTurn(p) ==
    /\ pc[p] = "NextTurn"
    /\ gamePlayers' = UpdateCurrentTurn(call[p].gameID, loc[p].target)
    /\ advances' = [advances EXCEPT ![call[p].gameID] = @ + 1]
    /\ Finish(p, [NoResult EXCEPT !.type = "turn_changed",
                                  !.previousPlayerID = call[p].userID,
                                  !.currentPlayerID = loc[p].target])
    /\ UNCHANGED <<games, call, calls, script>>

Step(p) ==
    \/ ReadGame(p)
    \/ GetStateReadPlayers(p)
    \/ JoinReadPlayers(p)
    \/ JoinInsert(p)
    \/ ReadyReadPlayers(p)
    \/ ReadyUpdate(p)
    \/ ReadyReadGame2(p)
    \/ ReadyReadPlayers2(p)
    \/ ReadySetStatus(p)
    \/ ReadySetTurn(p)
    \/ EndTurnReadPlayers(p)
    \/ EndTurnSetTurn(p)

\* ------------------------------------------------------------------ rooms
Conns == 1..NumConns

RoomIDs == 1..NumRooms

\* Client: userID, the send channel (its buffer, the times it was closed) and
\* the Room that GetRoom returned; enq lists every message ever put on send.
\* conn is the transport ("down" once either pump has closed it), rp and wp
\* are where the read pump and the write pump stand, w is the frame the write
\* pump is filling, n the queued messages it has still to add to it, and out
\* the frames it has written to the transport.
NoClient == [state |-> "none", userID |-> 0, gameID |-> 0, room |-> 0,
             send |-> <<>>, closed |-> 0, enq |-> <<>>, peer |-> "live",
             conn |-> "up", rp |-> "read", wp |-> "select", w |-> <<>>, n |-> 0,
             out |-> <<>>]

NoBroadcast == [pc |-> "idle", room |-> 0, msg |-> 0, todo |-> {}, start |-> {},
                dropped |-> {}]

NewRoom(gameID) == [gameID |-> gameID, clients |-> {}]

InitRooms ==
    /\ rooms = [g \in RoomIDs |-> 0]
    /\ roomList = <<>>
    /\ client = [c \in Conns |-> NoClient]
    /\ bcast = [p \in Procs |-> NoBroadcast]
    /\ msgs = 0
    /\ removes = 0

\* Manager.GetRoom: room, exists := m.rooms[gameID]
RoomExists_Never(gameID) == FALSE

RoomExists(gameID) == rooms[gameID] # 0

\* Manager.GetRoom under m.mu: the Room returned and the map it leaves
GetRoom(gameID) == IF RoomExists(gameID) THEN rooms[gameID] ELSE Len(roomList) + 1

GetRoomEffect(gameID) ==
    IF RoomExists(gameID)
        THEN UNCHANGED <<rooms, roomList>>
        ELSE /\ roomList' = Append(roomList, NewRoom(gameID))
             /\ rooms' = [rooms EXCEPT ![gameID] = Len(roomList) + 1]

\* r.mu is free for a writer when no Broadcast holds its read lock
ReadLocked(r) == \E p \in Procs : bcast[p].pc = "send" /\ bcast[p].room = r

\* Manager.HandleConnection: client := &Client{...}
NewClient(c, gameID, userID) ==
    /\ client[c].state = "none"
    /\ client' = [client EXCEPT ![c] = [NoClient EXCEPT !.state = "created",
                                                        !.userID = userID,
                                                        !.gameID = gameID]]
    /\ UNCHANGED <<rooms, roomList, bcast, msgs, removes>>

\* Manager.HandleConnection: room := m.GetRoom(gameID)
ConnGetRoom(c) ==
    /\ client[c].state = "created"
    /\ client' = [client EXCEPT ![c].state = "room",
                                ![c].room = GetRoom(client[c].gameID)]
    /\ GetRoomEffect(client[c].gameID)
    /\ UNCHANGED <<bcast, msgs, removes>>

\* Room.AddClient, after which the pumps of the connection run
AddClient(c) ==
    /\ client[c].state = "room"
    /\ ~ReadLocked(client[c].room)
    /\ roomList' = [roomList EXCEPT ![client[c].room].clients = @ \cup {c}]
    /\ client' = [client EXCEPT ![c].state = "open"]
    /\ UNCHANGED <<rooms, bcast, msgs, removes>>

\* Room.RemoveClient: if _, ok := r.clients[client]; ok
Attached_Always(r, c) == TRUE

Attached_Never(r, c) == FALSE

Attached(r, c) == c \in roomList[r].clients

\* Room.RemoveClient: delete(r.clients, client)
Remaining_None(r, c) == {}

Remaining_Kept(r, c) == roomList[r].clients

Remaining(r, c) == roomList[r].clients \ {c}

\* Room.RemoveClient under r.mu; readPump calls it when its loop ends
RemoveClient(c) ==
    /\ client[c].state \in {"open", "closed"}
    /\ removes < MaxRemoves
    /\ ~ReadLocked(client[c].room)
    /\ removes' = removes + 1
    /\ IF Attached(client[c].room, c)
          THEN /\ roomList' = [roomList EXCEPT ![client[c].room].clients =
                                                    Remaining(client[c].room, c)]
               /\ client' = [client EXCEPT ![c].state = "closed",
                                           ![c].closed = @ + 1]
          ELSE /\ client' = [client EXCEPT ![c].state = "closed"]
               /\ UNCHANGED roomList
    /\ UNCHANGED <<rooms, bcast, msgs>>

\* writePump: message, ok := <-client.send
Receive(c) ==
    /\ client[c].send # <<>>
    /\ client' = [client EXCEPT ![c].send = Tail(@)]
    /\ UNCHANGED <<rooms, roomList, bcast, msgs, removes>>

\* Room.Broadcast: for client := range r.clients
Targets_Known(r) == {c \in Conns : client[c].room = r}

Targets(r) == roomList[r].clients

\* select { case client.send <- data: default: }: the send never waits
CanOffer_Blocking(q) == Len(q) < SendCap

CanOffer(q) == TRUE

HasRoom(q) == Len(q) < SendCap

\* Room.Broadcast: r.mu.RLock()
BroadcastBegin(p, r, m) ==
    /\ bcast[p].pc # "send"
    /\ bcast' = [bcast EXCEPT ![p] = [pc |-> "send", room |-> r, msg |-> m,
                                      todo |-> Targets(r), start |-> Targets(r),
                                      dropped |-> {}]]

\* Room.Broadcast: one turn of the loop, in the map's iteration order
BroadcastSend(p) ==
    /\ bcast[p].pc = "send"
    /\ \E c \in bcast[p].todo :
         /\ CanOffer(client[c].send)
         /\ IF HasRoom(client[c].send)
               THEN /\ client' = [client EXCEPT ![c].send = Append(@, bcast[p].msg),
                                                ![c].enq = Append(@, bcast[p].msg)]
                    /\ bcast' = [bcast EXCEPT ![p].todo = @ \ {c}]
               ELSE /\ bcast' = [bcast EXCEPT ![p].todo = @ \ {c},
                                              ![p].dropped = @ \cup {c}]
                    /\ UNCHANGED client
    /\ UNCHANGED <<rooms, roomList, msgs, removes>>

\* Room.Broadcast: the loop is over, defer r.mu.RUnlock()
BroadcastEnd(p) ==
    /\ bcast[p].pc = "send"
    /\ bcast[p].todo = {}
    /\ bcast' = [bcast EXCEPT ![p].pc = "done"]
    /\ UNCHANGED <<rooms, roomList, client, msgs, removes>>

\* ------------------------------------------------------------------ lobby
NoLobbyClient == [state |-> "none", userID |-> 0, send |-> <<>>, closed |-> 0,
                  enq |-> <<>>, peer |-> "live"]

NoUpdate == [pc |-> "idle", msg |-> 0, todo |-> {}, dropped |-> {}]

InitLobby ==
    /\ lobbyClients = [u \in 1..LobbyUsers |-> 0]
    /\ lclient = [c \in Conns |-> NoLobbyClient]
    /\ lbcast = [p \in Procs |-> NoUpdate]

\* lm.mu is free for a writer when no BroadcastUpdate holds its read lock
LobbyReadLocked == \E p \in Procs : lbcast[p].pc = "send"

\* LobbyManager.HandleConnection: client := &LobbyClient{...}
LobbyNewClient(c, userID) ==
    /\ lclient[c].state = "none"
    /\ lclient' = [lclient EXCEPT ![c] = [NoLobbyClient EXCEPT !.state = "created",
                                                              !.userID = userID]]
    /\ UNCHANGED <<lobbyClients, lbcast, msgs>>

\* LobbyManager.HandleConnection: lm.clients[userID] = client, under lm.mu;
\* the pumps of the connection run from here on
LobbyRegister(c) ==
    /\ lclient[c].state = "created"
    /\ ~LobbyReadLocked
    /\ lobbyClients' = [lobbyClients EXCEPT ![lclient[c].userID] = c]
    /\ lclient' = [lclient EXCEPT ![c].state = "open"]
    /\ UNCHANGED <<lbcast, msgs>>

\* LobbyClient.readPump ends: lm.removeClient(c.userID) closes the send channel
\* of the client registered for the user id and deletes the entry
RemoveLobbyClient(c) ==
    /\ lclient[c].state = "open"
    /\ ~LobbyReadLocked
    /\ LET u == lclient[c].userID
           d == lobbyClients[u]
       IN IF d # 0
             THEN /\ lclient' = [x \in Conns |->
                                   [lclient[x] EXCEPT
                                      !.state = IF x = c THEN "closed" ELSE @,
                                      !.closed = IF x = d THEN @ + 1 ELSE @]]
                  /\ lobbyClients' = [lobbyClients EXCEPT ![u] = 0]
             ELSE /\ lclient' = [lclient EXCEPT ![c].state = "closed"]
                  /\ UNCHANGED lobbyClients
    /\ UNCHANGED <<lbcast, msgs>>

\* LobbyClient.writePump: message, ok := <-c.send
LobbyReceive(c) ==
    /\ lclient[c].send # <<>>
    /\ lclient' = [lclient EXCEPT ![c].send = Tail(@)]
    /\ UNCHANGED <<lobbyClients, lbcast, msgs>>

\* LobbyManager.BroadcastUpdate: for _, client := range lm.clients
LobbyTargets_Known == {c \in Conns : lclient[c].state \in {"open", "closed"}}

LobbyTargets == {lobbyClients[u] : u \in 1..LobbyUsers} \ {0}

\* LobbyManager.BroadcastUpdate: lm.mu.RLock()
BroadcastUpdate(p) ==
    /\ lbcast[p].pc # "send"
    /\ msgs < MaxMsgs
    /\ msgs' = msgs + 1
    /\ lbcast' = [lbcast EXCEPT ![p] = [pc |-> "send", msg |-> msgs + 1,
                                        todo |-> LobbyTargets, dropped |-> {}]]
    /\ UNCHANGED <<lobbyClients, lclient>>

\* LobbyManager.BroadcastUpdate: one turn of the loop
UpdateSend(p) ==
    /\ lbcast[p].pc = "send"
    /\ \E c \in lbcast[p].todo :
         IF HasRoom(lclient[c].send)
            THEN /\ lclient' = [lclient EXCEPT ![c].send = Append(@, lbcast[p].msg),
                                               ![c].enq = Append(@, lbcast[p].msg)]
                 /\ lbcast' = [lbcast EXCEPT ![p].todo = @ \ {c}]
            ELSE /\ lbcast' = [lbcast EXCEPT ![p].todo = @ \ {c},
                                             ![p].dropped = @ \cup {c}]
                 /\ UNCHANGED lclient
    /\ UNCHANGED <<lobbyClients, msgs>>

\* LobbyManager.BroadcastUpdate: the loop is over, defer lm.mu.RUnlock()
UpdateEnd(p) ==
    /\ lbcast[p].pc = "send"
    /\ lbcast[p].todo = {}
    /\ lbcast' = [lbcast EXCEPT ![p].pc = "done"]
    /\ UNCHANGED <<lobbyClients, lclient, msgs>>

\* --------------------------------------------------------------- handlers
\* A handler is idle, in its Engine command, about to broadcast the event the
\* command returned, or in the Broadcast; event numbers the command's write
\* among the writes of all commands.
NoFrame == [type |-> "", isReady |-> "absent", user |-> 0]

\* frame is the inbound frame a read pump handles or has just handled, invoked
\* whether an Engine command was called for it, replied whether a private
\* error message was offered for it, overlap whether a connection was detached
\* while it was handled.
NoHandler == [at |-> "idle", room |-> 0, event |-> 0, frame |-> NoFrame,
              invoked |-> FALSE, replied |-> FALSE, overlap |-> FALSE]

InitHandlers ==
    /\ handler = [p \in Procs |-> NoHandler]
    /\ commits = 0

\* Handlers.JoinGame: h.engine.JoinGame(gameID, userID, user.Username)
HttpJoin(p, gameID, userID) ==
    /\ handler[p].at = "idle"
    /\ Begin(p, [op |-> "Join", gameID |-> gameID, userID |-> userID, isReady |-> FALSE])
    /\ handler' = [handler EXCEPT ![p] = [NoHandler EXCEPT !.at = "engine"]]
    /\ UNCHANGED <<roomVars, lobbyVars, commits>>

\* Engine.JoinGame inside the handler, up to store.JoinGame
HttpJoinRead(p) ==
    /\ handler[p].at = "engine"
    /\ ReadGame(p) \/ JoinReadPlayers(p)
    /\ UNCHANGED <<roomVars, lobbyVars, hubVars, faultVars>>

\* Engine.JoinGame inside the handler: store.JoinGame, the command's write
HttpJoinInsert(p) ==
    /\ handler[p].at = "engine"
    /\ JoinInsert(p)
    /\ IF result'[p].err = ""
          THEN /\ commits' = commits + 1
               /\ handler' = [handler EXCEPT ![p].event = commits + 1]
          ELSE UNCHANGED <<handler, commits>>
    /\ UNCHANGED <<roomVars, lobbyVars, faultVars>>

\* Handlers.JoinGame: http.Error(w, err.Error(), http.StatusBadRequest)
HttpFail(p) ==
    /\ handler[p].at = "engine"
    /\ handler[p].frame = NoFrame
    /\ pc[p] = "done"
    /\ result[p].err # ""
    /\ handler' = [handler EXCEPT ![p] = NoHandler]
    /\ UNCHANGED <<engineVars, roomVars, lobbyVars, commits, faultVars>>

\* Handlers.JoinGame: room := h.wsManager.GetRoom(gameID)
HttpGetRoom(p) ==
    /\ handler[p].at = "engine"
    /\ handler[p].frame = NoFrame
    /\ pc[p] = "done"
    /\ result[p].err = ""
    /\ handler' = [handler EXCEPT ![p].at = "Broadcast",
                                  ![p].room = GetRoom(call[p].gameID)]
    /\ GetRoomEffect(call[p].gameID)
    /\ UNCHANGED <<engineVars, client, bcast, msgs, removes, lobbyVars, commits, faultVars>>

\* Handlers.JoinGame: room.Broadcast(event)
HttpBroadcast(p) ==
    /\ handler[p].at = "Broadcast"
    /\ BroadcastBegin(p, handler[p].room, handler[p].event)
    /\ handler' = [handler EXCEPT ![p].at = "loop"]
    /\ UNCHANGED <<engineVars, rooms, roomList, client, msgs, removes, lobbyVars, commits, faultVars>>

\* Handlers.JoinGame: the response is written and the handler returns
HttpReturn(p) ==
    /\ handler[p].at = "loop"
    /\ handler[p].frame = NoFrame
    /\ bcast[p].pc = "done"
    /\ handler' = [handler EXCEPT ![p] = NoHandler]
    /\ UNCHANGED <<engineVars, roomVars, lobbyVars, commits, faultVars>>

\* ------------------------------------------------------------- dispatcher
DispUsers == 2
DispCalls == 2
MaxReplies == 1

\* OutgoingMessage{Type: "error"}; the events are numbered from 1
ErrorMsg == 0

\* An inbound frame: text that json.Unmarshal rejects, a message of a type
\* that handleMessage does not know, "ready" with its payload's isReady (no
\* such key, a JSON boolean, or a value of another type), or "end_turn"; the
\* payload of a command may name a user id as well (0: it names none).
Frames ==
    {f \in [type : {"undecodable", "unknown", "ready", "end_turn"},
            isReady : {"absent", "true", "false", "malformed"},
            user : 0..DispUsers] :
        /\ f.type # "ready" => f.isReady = "absent"
        /\ f.type \notin {"ready", "end_turn"} => f.user = 0}

\* handleMessage: the user a command is run for is client.userID
Actor_Payload(c, f) == IF f.user # 0 THEN f.user ELSE client[c].userID

Actor(c, f) == client[c].userID

\* handleMessage: isReady := true, replaced by the payload's boolean
IsReady(f) == IF f.isReady = "false" THEN FALSE ELSE TRUE

\* the connections that are offered a private error message
ReplyTo_Room(c) == roomList[client[c].room].clients

ReplyTo(c) == {c}

\* select { case client.send <- data: default: }
Reply(c) ==
    client' = [d \in Conns |->
                 IF d \in ReplyTo(c) /\ HasRoom(client[d].send)
                    THEN [client[d] EXCEPT !.send = Append(@, ErrorMsg),
                                           !.enq = Append(@, ErrorMsg)]
                    ELSE client[d]]

\* readPump: _, message, err := client.conn.ReadMessage() with err == nil
WsFrame(c, f) ==
    /\ client[c].state = "open"
    /\ handler[c].at = "idle"
    /\ handler' = [handler EXCEPT ![c] = [NoHandler EXCEPT !.at = "decode", !.frame = f]]
    /\ UNCHANGED <<engineVars, roomVars, lobbyVars, commits, faultVars>>

\* readPump: json.Unmarshal fails, log and continue; handleMessage: default
\* case, log and return
WsDrop(c) ==
    /\ handler[c].at = "decode"
    /\ handler[c].frame.type \in {"undecodable", "unknown"}
    /\ handler' = [handler EXCEPT ![c].at = "handled"]
    /\ UNCHANGED <<engineVars, roomVars, lobbyVars, commits, faultVars>>

\* handleMessage, case "ready": the isReady of the payload is not a bool
WsInvalid(c) ==
    /\ handler[c].at = "decode"
    /\ handler[c].frame.type = "ready"
    /\ handler[c].frame.isReady = "malformed"
    /\ Reply(c)
    /\ handler' = [handler EXCEPT ![c].at = "handled", ![c].replied = TRUE]
    /\ UNCHANGED <<engineVars, rooms, roomList, bcast, msgs, removes, lobbyVars,
                   commits, faultVars>>

\* handleMessage: m.engine.SetReady(room.gameID, client.userID, isReady) or
\* m.engine.EndTurn(room.gameID, client.userID)
WsCommand(c) ==
    /\ handler[c].at = "decode"
    /\ \/ handler[c].frame.type = "ready" /\ handler[c].frame.isReady # "malformed"
       \/ handler[c].frame.type = "end_turn"
    /\ Begin(c, [op |-> IF handler[c].frame.type = "ready" THEN "SetReady" ELSE "EndTurn",
                 gameID |-> roomList[client[c].room].gameID,
                 userID |-> Actor(c, handler[c].frame),
                 isReady |-> handler[c].frame.type = "ready" /\ IsReady(handler[c].frame)])
    /\ handler' = [handler EXCEPT ![c].at = "engine", ![c].invoked = TRUE]
    /\ saved' = [games |-> games, gamePlayers |-> gamePlayers]
    /\ UNCHANGED <<roomVars, lobbyVars, commits>>

\* the Engine command of the frame, store call by store call; the command
\* commits with its first write
WsEngine(c) ==
    /\ handler[c].at = "engine"
    /\ Step(c)
    /\ IF pc[c] \in {"UpdatePlayerReady", "NextTurn"}
          THEN /\ commits' = commits + 1
               /\ handler' = [handler EXCEPT ![c].event = commits + 1]
          ELSE UNCHANGED <<handler, commits>>
    /\ UNCHANGED <<roomVars, lobbyVars, faultVars>>

\* handleMessage: err != nil, the error goes to client.send and nowhere else
WsReject(c) ==
    /\ handler[c].at = "engine"
    /\ handler[c].frame # NoFrame
    /\ pc[c] = "done"
    /\ result[c].err # ""
    /\ Reply(c)
    /\ handler' = [handler EXCEPT ![c].at = "handled", ![c].replied = TRUE]
    /\ UNCHANGED <<engineVars, rooms, roomList, bcast, msgs, removes, lobbyVars,
                   commits, faultVars>>

\* handleMessage: room.Broadcast(OutgoingMessage{event.Type, event.Payload})
WsBroadcast(c) ==
    /\ handler[c].at = "engine"
    /\ handler[c].frame # NoFrame
    /\ pc[c] = "done"
    /\ result[c].err = ""
    /\ BroadcastBegin(c, client[c].room, handler[c].event)
    /\ handler' = [handler EXCEPT ![c].at = "loop"]
    /\ UNCHANGED <<engineVars, rooms, roomList, client, msgs, removes, lobbyVars,
                   commits, faultVars>>

\* handleMessage returns to the loop of readPump
WsReturn(c) ==
    /\ handler[c].at = "loop"
    /\ handler[c].frame # NoFrame
    /\ bcast[c].pc = "done"
    /\ handler' = [handler EXCEPT ![c].at = "handled"]
    /\ UNCHANGED <<engineVars, roomVars, lobbyVars, commits, faultVars>>

\* readPump: the next turn of the for loop; what handleMessage held is gone
WsNext(c) ==
    /\ handler[c].at = "handled"
    /\ handler' = [handler EXCEPT ![c] = NoHandler]
    /\ bcast' = [bcast EXCEPT ![c] = NoBroadcast]
    /\ pc' = [pc EXCEPT ![c] = "idle"]
    /\ call' = [call EXCEPT ![c] = NoCall]
    /\ result' = [result EXCEPT ![c] = NoResult]
    /\ UNCHANGED <<games, gamePlayers, loc, advances, calls, script, rooms, roomList,
                   client, msgs, removes, lobbyVars, commits, faultVars>>

\* readPump: ReadMessage fails, the loop breaks and the deferred
\* room.RemoveClient(client) runs
WsClose(c) ==
    /\ client[c].state = "open"
    /\ handler[c].at = "idle"
    /\ RemoveClient(c)
    /\ handler' = [p \in Procs |->
                     IF handler[p].at # "idle" /\ handler[p].frame # NoFrame
                        THEN [handler[p] EXCEPT !.overlap = TRUE]
                        ELSE handler[p]]
    /\ UNCHANGED <<engineVars, lobbyVars, commits, faultVars>>

\* ---------------------------------------------------------- specifications
Init ==
    /\ games = <<>>
    /\ gamePlayers = {}
    /\ pc = [p \in Procs |-> "idle"]
    /\ call = [p \in Procs |-> NoCall]
    /\ loc = [p \in Procs |-> NoLoc]
    /\ result = [p \in Procs |-> NoResult]
    /\ advances = [g \in 1..MaxGames |-> 0]
    /\ calls = 0
    /\ script = NoScript
    /\ InitRooms
    /\ InitLobby
    /\ InitHandlers
    /\ saved = NoStore

\* The Engine as it is called: the HTTP handlers and the websocket read pumps
\* run on goroutines of their own and the Engine holds no lock.
CreateGame == Len(games) < MaxGames /\ \E req \in 1..MaxReq : Create(req)

Invoke(p) == calls < MaxCalls /\ \E c \in Commands(Ops, 1..NumUsers) : Begin(p, c)

Next ==
    /\ UNCHANGED <<roomVars, lobbyVars, hubVars, faultVars>>
    /\ \/ CreateGame
       \/ \E p \in Procs : Invoke(p)
       \/ \E p \in Procs : Step(p)

Spec == Init /\ [][Next]_vars

\* Concurrent callers of the join endpoint alone.
InvokeJoin(p) == calls < JoinCalls /\ \E c \in Commands({"Join"}, 1..JoinUsers) : Begin(p, c)

NextJoin ==
    /\ UNCHANGED <<roomVars, lobbyVars, hubVars, faultVars>>
    /\ \/ CreateGame
       \/ \E p \in Procs : InvokeJoin(p)
       \/ \E p \in Procs : ReadGame(p)
       \/ \E p \in Procs : JoinReadPlayers(p)
       \/ \E p \in Procs : JoinInsert(p)

SpecJoin == Init /\ [][NextJoin]_vars

\* One caller: each command returns before the next one is issued.
InvokeSeq == calls < SeqCalls /\ \E c \in Commands(Ops, 1..SeqUsers) : Begin(1, c)

NextSeq ==
    /\ UNCHANGED <<roomVars, lobbyVars, hubVars, faultVars>>
    /\ \/ CreateGame
       \/ InvokeSeq
       \/ Step(1)

SpecSeq == Init /\ [][NextSeq]_vars

\* One session and one caller at a time: the session is created, fills, its
\* players get ready and end their turns.
CreateRound == games = <<>> /\ \E req \in 1..RoundUsers : Create(req)

InvokeRound ==
    /\ calls < RoundCalls
    /\ \E c \in Commands({"Join", "SetReady", "EndTurn"}, 1..RoundUsers) :
         /\ c.isReady = (c.op = "SetReady")
         /\ Begin(1, c)

StepRound ==
    \/ ReadGame(1)
    \/ JoinReadPlayers(1)
    \/ JoinInsert(1)
    \/ ReadyReadPlayers(1)
    \/ ReadyUpdate(1)
    \/ ReadyReadGame2(1)
    \/ ReadyReadPlayers2(1)
    \/ ReadySetStatus(1)
    \/ ReadySetTurn(1)
    \/ EndTurnReadPlayers(1)
    \/ EndTurnSetTurn(1)

NextRound ==
    /\ UNCHANGED <<roomVars, lobbyVars, hubVars, faultVars>>
    /\ \/ CreateRound
       \/ InvokeRound
       \/ StepRound

SpecRound == Init /\ [][NextRound]_vars

\* The scenario of the specification's section 8: a session of two, users a
\* and b, and the six commands in order.
Scenario(a, b) ==
    <<[op |-> "Join", gameID |-> 1, userID |-> a, isReady |-> FALSE],
      [op |-> "Join", gameID |-> 1, userID |-> b, isReady |-> FALSE],
      [op |-> "SetReady", gameID |-> 1, userID |-> a, isReady |-> TRUE],
      [op |-> "SetReady", gameID |-> 1, userID |-> b, isReady |-> TRUE],
      [op |-> "EndTurn", gameID |-> 1, userID |-> a, isReady |-> FALSE],
      [op |-> "EndTurn", gameID |-> 1, userID |-> a, isReady |-> FALSE]>>

InitScenario ==
    /\ games = <<>>
    /\ gamePlayers = {}
    /\ pc = [p \in Procs |-> "idle"]
    /\ call = [p \in Procs |-> NoCall]
    /\ loc = [p \in Procs |-> NoLoc]
    /\ result = [p \in Procs |-> NoResult]
    /\ advances = [g \in 1..MaxGames |-> 0]
    /\ calls = 0
    /\ InitRooms
    /\ InitLobby
    /\ InitHandlers
    /\ saved = NoStore
    \* a requested size of 1 or 2 is stored as 2
    /\ \E a, b \in 1..NumUsers, req \in 1..MinPlayers :
         /\ a # b
         /\ script = [maxPlayers |-> req, cmds |-> Scenario(a, b)]

CreateScenario == games = <<>> /\ Create(script.maxPlayers)

InvokeScenario ==
    /\ games # <<>>
    /\ calls < Len(script.cmds)
    /\ Begin(1, script.cmds[calls + 1])

NextScenario ==
    /\ UNCHANGED <<roomVars, lobbyVars, hubVars, faultVars>>
    /\ \/ CreateScenario
       \/ InvokeScenario
       \/ StepRound

SpecScenario == InitScenario /\ [][NextScenario]_vars

\* Concurrent callers on one session, from its creation through its start and
\* its first turns.
InvokeFlags(p) ==
    /\ calls < FlagCalls
    /\ \E c \in Commands({"Join", "SetReady", "EndTurn"}, 1..FlagUsers) :
         /\ c.isReady = (c.op = "SetReady")
         /\ Begin(p, c)

StepFlags(p) ==
    \/ ReadGame(p)
    \/ JoinReadPlayers(p)
    \/ JoinInsert(p)
    \/ ReadyReadPlayers(p)
    \/ ReadyUpdate(p)
    \/ ReadyReadGame2(p)
    \/ ReadyReadPlayers2(p)
    \/ ReadySetStatus(p)
    \/ ReadySetTurn(p)
    \/ EndTurnReadPlayers(p)
    \/ EndTurnSetTurn(p)

NextFlags ==
    /\ UNCHANGED <<roomVars, lobbyVars, hubVars, faultVars>>
    /\ \/ CreateRound
       \/ \E p \in Procs : InvokeFlags(p)
       \/ \E p \in Procs : StepFlags(p)

SpecFlags == Init /\ [][NextFlags]_vars

\* The Rooms alone: connections are opened on game ids by the user of the
\* same number, attached, read by their write pumps and broadcast to by
\* goroutines that hold a Room.
OpenConn == \E c \in Conns, g \in RoomIDs : NewClient(c, g, c)

OpenCastConn == \E c \in Conns, g \in 1..CastRooms : NewClient(c, g, c)

Broadcast(p) ==
    /\ msgs < MaxMsgs
    /\ msgs' = msgs + 1
    /\ \E r \in 1..Len(roomList) : BroadcastBegin(p, r, msgs + 1)
    /\ UNCHANGED <<rooms, roomList, client, removes>>

NextRoom ==
    /\ UNCHANGED <<engineVars, lobbyVars, hubVars, faultVars>>
    /\ \/ OpenCastConn
       \/ \E c \in Conns : ConnGetRoom(c)
       \/ \E c \in Conns : AddClient(c)
       \/ \E c \in Conns : Receive(c)
       \/ \E p \in 1..CastProcs : Broadcast(p)
       \/ \E p \in 1..CastProcs : BroadcastSend(p)
       \/ \E p \in 1..CastProcs : BroadcastEnd(p)

SpecRoom == Init /\ [][NextRoom]_vars

\* The registry of Rooms and their clients: connections are opened, attached
\* and detached, the detach possibly more than once.
NextAttach ==
    /\ UNCHANGED <<engineVars, lobbyVars, hubVars, faultVars>>
    /\ \/ OpenConn
       \/ \E c \in Conns : ConnGetRoom(c)
       \/ \E c \in Conns : AddClient(c)
       \/ \E c \in Conns : RemoveClient(c)

SpecAttach == Init /\ [][NextAttach]_vars

\* The lobby: users open connections to it, one or several each, the
\* connections end and the listing is broadcast.
NextLobby ==
    /\ UNCHANGED <<engineVars, rooms, roomList, client, bcast, removes, hubVars, faultVars>>
    /\ \/ \E c \in Conns, u \in 1..LobbyUsers : LobbyNewClient(c, u)
       \/ \E c \in Conns : LobbyRegister(c)
       \/ \E c \in Conns : RemoveLobbyClient(c)
       \/ \E c \in Conns : LobbyReceive(c)
       \/ \E p \in 1..CastProcs : BroadcastUpdate(p)
       \/ \E p \in 1..CastProcs : UpdateSend(p)
       \/ \E p \in 1..CastProcs : UpdateEnd(p)

SpecLobby == Init /\ [][NextLobby]_vars

\* The join endpoint with the Rooms: concurrent requests join users to games
\* and broadcast the events to the connections attached to the game's Room.
NextHub ==
    \/ CreateGame /\ UNCHANGED <<roomVars, lobbyVars, hubVars, faultVars>>
    \/ \E p \in Procs, u \in 1..JoinUsers :
          calls < JoinCalls /\ HttpJoin(p, 1, u) /\ UNCHANGED faultVars
    \/ \E p \in Procs : HttpJoinRead(p)
    \/ \E p \in Procs : HttpJoinInsert(p)
    \/ \E p \in Procs : HttpFail(p)
    \/ \E p \in Procs : HttpGetRoom(p)
    \/ \E p \in Procs : HttpBroadcast(p)
    \/ \E p \in Procs : HttpReturn(p)
    \/ /\ UNCHANGED <<engineVars, lobbyVars, hubVars, faultVars>>
       /\ \/ OpenCastConn
          \/ \E c \in Conns : ConnGetRoom(c)
          \/ \E c \in Conns : AddClient(c)
          \/ \E c \in Conns : Receive(c)
          \/ \E p \in Procs : BroadcastSend(p)
          \/ \E p \in Procs : BroadcastEnd(p)

SpecHub == Init /\ [][NextHub]_vars

\* One caller and a store whose calls may fail: the statement or transaction
\* of the failing call writes nothing and the Engine returns the store's error
\* (every store call of Join, SetReady and EndTurn is followed by
\* "if err != nil { return nil, err }").
StoreFails(p) ==
    /\ InFlight(p)
    /\ Finish(p, Failure(ErrStore))
    /\ UNCHANGED <<games, gamePlayers, call, advances, calls, script>>

FaultCalls == 5

InvokeFault ==
    /\ calls < FaultCalls
    /\ \E c \in Commands({"Join", "SetReady", "EndTurn"}, 1..SeqUsers) : Begin(1, c)
    /\ saved' = [games |-> games, gamePlayers |-> gamePlayers]

NextFault ==
    /\ UNCHANGED <<roomVars, lobbyVars, hubVars>>
    /\ \/ CreateGame /\ UNCHANGED saved
       \/ InvokeFault
       \/ Step(1) /\ UNCHANGED saved
       \/ StoreFails(1) /\ UNCHANGED saved

SpecFault == Init /\ [][NextFault]_vars

\* The read pumps of the Room connections with the join endpoint: one frame
\* or request is handled at a time, while connections close at any moment.
\* Opening a connection and the write pump's receive are taken between the
\* frames: they commute with the store calls of a command and wait for the
\* Room's lock during its Broadcast.

Quiet == \A p \in Procs : handler[p].at = "idle"

OpenDispConn == \E c \in Conns : NewClient(c, 1, c)

\* The server before the first connection is opened: no game yet, or game 1
\* with its first n users joined through the join endpoint, whose handler has
\* made the game's Room, and either nobody ready yet or, with two users or
\* more, all ready and the game started with the turn at user 1; user 1 has
\* its directory connection attached; calls counts the commands from here on.
InitDispatch ==
    /\ pc = [p \in Procs |-> "idle"]
    /\ call = [p \in Procs |-> NoCall]
    /\ loc = [p \in Procs |-> NoLoc]
    /\ result = [p \in Procs |-> NoResult]
    /\ advances = [g \in 1..MaxGames |-> 0]
    /\ calls = 0
    /\ script = NoScript
    /\ client = [c \in Conns |-> NoClient]
    /\ bcast = [p \in Procs |-> NoBroadcast]
    /\ msgs = 0
    /\ removes = 0
    /\ lobbyClients = [u \in 1..LobbyUsers |-> IF u = 1 THEN 1 ELSE 0]
    /\ lclient = [c \in Conns |->
                    IF c = 1 THEN [NoLobbyClient EXCEPT !.state = "open", !.userID = 1]
                             ELSE NoLobbyClient]
    /\ lbcast = [p \in Procs |-> NoUpdate]
    /\ handler = [p \in Procs |-> NoHandler]
    /\ saved = NoStore
    /\ \E n \in 0..DispUsers, started \in BOOLEAN :
         /\ started => n >= StartPlayers
         /\ gamePlayers = {[gameID |-> 1, userID |-> u, playerOrder |-> u - 1,
                             isReady |-> started,
                             isCurrentTurn |-> started /\ u = 1,
                             copy |-> 0] : u \in 1..n}
         /\ commits = IF started THEN 2 * n ELSE n
         /\ games = IF n > 0
                       THEN <<[status |-> IF started THEN StatusInProgress
                                                     ELSE StatusWaiting,
                               maxPlayers |-> ClampMaxPlayers(DispUsers)]>>
                       ELSE <<>>
         /\ rooms = [g \in RoomIDs |-> IF g = 1 /\ n > 0 THEN 1 ELSE 0]
         /\ roomList = IF n > 0 THEN <<NewRoom(1)>> ELSE <<>>

NextDispatch ==
    \/ \E u \in 1..NumUsers :
          /\ Quiet
          /\ calls < DispCalls
          /\ HttpJoin(1, 1, u)
          /\ saved' = [games |-> games, gamePlayers |-> gamePlayers]
    \/ \E p \in Procs : handler[p].frame = NoFrame /\ HttpJoinRead(p)
    \/ \E p \in Procs : handler[p].frame = NoFrame /\ HttpJoinInsert(p)
    \/ \E p \in Procs : HttpFail(p)
    \/ \E p \in Procs : HttpGetRoom(p)
    \/ \E p \in Procs : HttpBroadcast(p)
    \/ \E p \in Procs : HttpReturn(p)
    \/ /\ UNCHANGED <<engineVars, lobbyVars, hubVars, faultVars>>
       /\ \/ Quiet /\ OpenDispConn
          \/ \E c \in Conns : Quiet /\ ConnGetRoom(c)
          \/ \E c \in Conns : Quiet /\ AddClient(c)
          \/ \E c \in Conns : Quiet /\ Receive(c)
          \/ \E p \in Procs : BroadcastSend(p)
          \/ \E p \in Procs : BroadcastEnd(p)
    \/ \E c \in Conns, f \in Frames :
          /\ Quiet
          /\ f.type \in {"ready", "end_turn"} => calls < DispCalls
          /\ f.isReady = "malformed" => Len(client[c].enq) < MaxReplies
          /\ WsFrame(c, f)
    \/ \E c \in Conns : WsDrop(c)
    \/ \E c \in Conns : WsInvalid(c)
    \/ \E c \in Conns : WsCommand(c)
    \/ \E c \in Conns : WsEngine(c)
    \/ \E c \in Conns : WsReject(c)
    \/ \E c \in Conns : WsBroadcast(c)
    \/ \E c \in Conns : WsReturn(c)
    \/ \E c \in Conns : WsNext(c)
    \/ \E c \in Conns : WsClose(c)

SpecDispatch == InitDispatch /\ [][NextDispatch]_vars

\* Two games side by side. Game 1 waits with users 1 and 2 joined, user 2
\* ready and room for one more; game 2, with the same users, has started and its turn is at user 2,
\* whose connection is attached to the Room of game 2. Connections to game 1
\* are opened from here on.
InitIso ==
    /\ pc = [p \in Procs |-> "idle"]
    /\ call = [p \in Procs |-> NoCall]
    /\ loc = [p \in Procs |-> NoLoc]
    /\ result = [p \in Procs |-> NoResult]
    /\ advances = [g \in 1..2 |-> IF g = 2 THEN 1 ELSE 0]
    /\ calls = 0
    /\ script = NoScript
    /\ games = <<[status |-> StatusWaiting, maxPlayers |-> ClampMaxPlayers(NumUsers)],
                 [status |-> StatusInProgress, maxPlayers |-> MinPlayers]>>
    /\ gamePlayers = {[gameID |-> g, userID |-> u, playerOrder |-> u - 1,
                       isReady |-> (g = 2 \/ u = 2),
                       isCurrentTurn |-> (g = 2 /\ u = 2),
                       copy |-> 0] : g \in 1..2, u \in 1..2}
    /\ rooms = [g \in RoomIDs |-> IF g <= 2 THEN g ELSE 0]
    /\ roomList = <<NewRoom(1), [NewRoom(2) EXCEPT !.clients = {2}]>>
    /\ client = [c \in Conns |->
                   IF c = 2 THEN [NoClient EXCEPT !.state = "open", !.userID = 2,
                                                  !.gameID = 2, !.room = 2]
                            ELSE NoClient]
    /\ bcast = [p \in Procs |-> NoBroadcast]
    /\ msgs = 0
    /\ removes = 0
    /\ InitLobby
    /\ handler = [p \in Procs |-> NoHandler]
    /\ commits = 8
    /\ saved = NoStore

SpecIso == InitIso /\ [][NextDispatch]_vars

\* Connections whose peer falls silent: it sends no message and answers no
\* ping from then on, without closing the connection.
PeerSilent(c) ==
    /\ client[c].state = "open"
    /\ client[c].peer = "live"
    /\ client' = [client EXCEPT ![c].peer = "silent"]
    /\ UNCHANGED <<rooms, roomList, bcast, msgs, removes>>

\* Manager.readPump: the read deadline (pongWait, renewed by each pong) passes,
\* ReadMessage fails and the deferred room.RemoveClient runs
ReadTimeout(c) ==
    /\ client[c].state = "open"
    /\ client[c].peer = "silent"
    /\ RemoveClient(c)

LobbyPeerSilent(c) ==
    /\ lclient[c].state = "open"
    /\ lclient[c].peer = "live"
    /\ lclient' = [lclient EXCEPT ![c].peer = "silent"]
    /\ UNCHANGED <<lobbyClients, lbcast, msgs>>

\* LobbyClient.readPump sets no read deadline: its ReadMessage fails, and
\* lm.removeClient runs, only when the peer closes the connection
LobbyHangup(c) ==
    /\ lclient[c].peer = "live"
    /\ RemoveLobbyClient(c)

NextIdle ==
    \/ /\ UNCHANGED <<engineVars, lobbyVars, hubVars, faultVars>>
       /\ \/ OpenConn
          \/ \E c \in Conns : ConnGetRoom(c)
          \/ \E c \in Conns : AddClient(c)
          \/ \E c \in Conns : PeerSilent(c)
          \/ \E c \in Conns : ReadTimeout(c)
    \/ /\ UNCHANGED <<engineVars, rooms, roomList, client, bcast, removes, hubVars,
                       faultVars>>
       /\ \/ \E c \in Conns, u \in 1..LobbyUsers : LobbyNewClient(c, u)
          \/ \E c \in Conns : LobbyRegister(c)
          \/ \E c \in Conns : LobbyPeerSilent(c)
          \/ \E c \in Conns : LobbyHangup(c)

\* Time passes: a read deadline that has been set does expire.
Timeouts ==
    \A c \in Conns :
        WF_vars(ReadTimeout(c) /\ UNCHANGED <<engineVars, lobbyVars, hubVars, faultVars>>)

SpecIdle == Init /\ [][NextIdle]_vars /\ Timeouts

\* The create endpoint alone: a caller picks the size it asks for, from below
\* the smallest to above the largest size the Lobby stores, then
\* Lobby.CreateGame runs with it.
ReqSlack == 2
MaxCreate == 2

NextCreate ==
    /\ UNCHANGED <<roomVars, lobbyVars, hubVars, faultVars>>
    /\ \/ /\ \E r \in (0 - ReqSlack)..(MaxPlayersCap + ReqSlack) :
                 script' = [script EXCEPT !.maxPlayers = r]
          /\ UNCHANGED <<games, gamePlayers, pc, call, loc, result, advances, calls>>
       \/ /\ Len(games) < MaxCreate
          /\ Create(script.maxPlayers)

SpecCreate == Init /\ [][NextCreate]_vars

\* ------------------------------------------------------------------ pumps
\* The two loops of a Room connection, which HandleConnection starts after
\* AddClient. A read or a write on the transport fails when the transport is
\* closed and may fail while it is up (the peer is gone, a deadline passes).

\* writePump: w.Write(message)
Written_Front(w, m) == <<m>> \o w

Written(w, m) == Append(w, m)

PumpFrame == UNCHANGED <<rooms, roomList, bcast, msgs, removes>>

\* writePump: message, ok := <-client.send with ok, then conn.NextWriter
WritePumpReceive(c) ==
    /\ client[c].state \in {"open", "closed"}
    /\ client[c].wp = "select"
    /\ client[c].send # <<>>
    /\ \/ /\ client[c].conn = "up"
          /\ client' = [client EXCEPT ![c].send = Tail(@),
                                      ![c].w = Written(<<>>, Head(client[c].send)),
                                      ![c].wp = "writer"]
       \/ client' = [client EXCEPT ![c].send = Tail(@),
                                   ![c].wp = "failed",
                                   ![c].conn = "down"]
    /\ PumpFrame

\* writePump: n := len(client.send)
WritePumpCount(c) ==
    /\ client[c].wp = "writer"
    /\ client' = [client EXCEPT ![c].n = Len(client[c].send), ![c].wp = "drain"]
    /\ PumpFrame

\* writePump: w.Write(<-client.send), one turn of the loop over n
WritePumpDrain(c) ==
    /\ client[c].wp = "drain"
    /\ client[c].n > 0
    /\ client' = [client EXCEPT ![c].send = Tail(@),
                                ![c].w = Written(@, Head(client[c].send)),
                                ![c].n = @ - 1]
    /\ PumpFrame

\* writePump: w.Close() sends the frame, or fails and the pump returns
WritePumpFlush(c) ==
    /\ client[c].wp = "drain"
    /\ client[c].n = 0
    /\ \/ /\ client[c].conn = "up"
          /\ client' = [client EXCEPT ![c].out = Append(@, client[c].w),
                                      ![c].w = <<>>,
                                      ![c].wp = "select"]
       \/ client' = [client EXCEPT ![c].wp = "failed", ![c].conn = "down"]
    /\ PumpFrame

\* writePump: !ok, the queue is closed and empty: the close message is
\* written, the pump returns and its deferred conn.Close() runs
WritePumpClosed(c) ==
    /\ client[c].wp = "select"
    /\ client[c].send = <<>>
    /\ client[c].closed > 0
    /\ client' = [client EXCEPT ![c].wp = "done", ![c].conn = "down"]
    /\ PumpFrame

\* writePump: case <-ticker.C, the ping cannot be written and the pump returns
WritePumpPing(c) ==
    /\ client[c].state \in {"open", "closed"}
    /\ client[c].wp = "select"
    /\ client' = [client EXCEPT ![c].wp = "failed", ![c].conn = "down"]
    /\ PumpFrame

\* readPump: conn.ReadMessage returns an error, break
ReadPumpFail(c) ==
    /\ client[c].state = "open"
    /\ client[c].rp = "read"
    /\ client' = [client EXCEPT ![c].rp = "failed"]
    /\ PumpFrame

\* readPump, deferred: room.RemoveClient(client)
ReadPumpDetach(c) ==
    /\ client[c].state = "open"
    /\ client[c].rp = "failed"
    /\ RemoveClient(c)

\* readPump, deferred: client.conn.Close()
ReadPumpClose(c) ==
    /\ client[c].state = "closed"
    /\ client[c].rp = "failed"
    /\ client' = [client EXCEPT ![c].rp = "done", ![c].conn = "down"]
    /\ PumpFrame

\* handleMessage, called by the read pump: the error reply to the connection's
\* own queue, select { case client.send <- data: default: }
PrivateReply(c) ==
    /\ client[c].state = "open"
    /\ client[c].rp = "read"
    /\ msgs < MaxMsgs
    /\ msgs' = msgs + 1
    /\ Reply(c)
    /\ UNCHANGED <<rooms, roomList, bcast, removes>>

\* The steps a scheduled write pump takes by itself
WritePumpStep(c) ==
    \/ WritePumpReceive(c)
    \/ WritePumpCount(c)
    \/ WritePumpDrain(c)
    \/ WritePumpFlush(c)
    \/ WritePumpClosed(c)

\* The steps a scheduled read pump takes by itself: ReadMessage on a closed
\* transport returns an error, and the deferred calls follow the break
ReadPumpStep(c) ==
    \/ client[c].conn = "down" /\ ReadPumpFail(c)
    \/ ReadPumpDetach(c)
    \/ ReadPumpClose(c)

\* Connections to the games of G, their pumps, replies and Broadcasts
NextPump(G) ==
    /\ UNCHANGED <<engineVars, lobbyVars, hubVars, faultVars>>
    /\ \/ \E c \in Conns, g \in G : NewClient(c, g, c)
       \/ \E c \in Conns : ConnGetRoom(c)
       \/ \E c \in Conns : AddClient(c)
       \/ \E p \in 1..CastProcs : Broadcast(p)
       \/ \E p \in 1..CastProcs : BroadcastSend(p)
       \/ \E p \in 1..CastProcs : BroadcastEnd(p)
       \/ \E c \in Conns : PrivateReply(c)
       \/ \E c \in Conns : WritePumpStep(c)
       \/ \E c \in Conns : WritePumpPing(c)
       \/ \E c \in Conns : ReadPumpFail(c)
       \/ \E c \in Conns : ReadPumpStep(c)

\* The Go scheduler runs every goroutine that can run: the pumps, and a
\* Broadcast that holds the Room's read lock.
PumpsRun ==
    /\ \A c \in Conns :
          /\ WF_vars(WritePumpStep(c)
                       /\ UNCHANGED <<engineVars, lobbyVars, hubVars, faultVars>>)
          /\ WF_vars(ReadPumpStep(c)
                       /\ UNCHANGED <<engineVars, lobbyVars, hubVars, faultVars>>)
    /\ \A p \in 1..CastProcs :
          WF_vars((BroadcastSend(p) \/ BroadcastEnd(p))
                    /\ UNCHANGED <<engineVars, lobbyVars, hubVars, faultVars>>)

SpecPump == Init /\ [][NextPump(1..CastRooms)]_vars /\ PumpsRun

SpecPumpRooms == Init /\ [][NextPump(RoomIDs)]_vars

\* A connection is one to a game or one to the lobby. Its read pump ends at
\* any time; every send and every close of an outbound queue is here.
NextSend ==
    \/ /\ UNCHANGED <<engineVars, lobbyVars, hubVars, faultVars>>
       /\ \/ \E c \in Conns, g \in 1..CastRooms :
                lclient[c].state = "none" /\ NewClient(c, g, c)
          \/ \E c \in Conns : ConnGetRoom(c)
          \/ \E c \in Conns : AddClient(c)
          \/ \E p \in 1..CastProcs : Broadcast(p)
          \/ \E p \in 1..CastProcs : BroadcastSend(p)
          \/ \E p \in 1..CastProcs : BroadcastEnd(p)
          \/ \E c \in Conns : PrivateReply(c)
          \/ \E c \in Conns : Receive(c)
          \/ \E c \in Conns : ReadPumpFail(c)
          \/ \E c \in Conns : ReadPumpDetach(c)
    \/ /\ UNCHANGED <<engineVars, rooms, roomList, client, bcast, removes, hubVars,
                       faultVars>>
       /\ \/ \E c \in Conns, u \in 1..LobbyUsers :
                client[c].state = "none" /\ LobbyNewClient(c, u)
          \/ \E c \in Conns : LobbyRegister(c)
          \/ \E c \in Conns : RemoveLobbyClient(c)
          \/ \E c \in Conns : LobbyReceive(c)
          \/ \E p \in 1..CastProcs : BroadcastUpdate(p)
          \/ \E p \in 1..CastProcs : UpdateSend(p)
          \/ \E p \in 1..CastProcs : UpdateEnd(p)

SpecSend == Init /\ [][NextSend]_vars

\* ------------------------------------------------------------ properties
Status(gameID) == GetGame(gameID).status

Holders(gameID) == {r.userID : r \in {x \in Rows(gameID) : x.isCurrentTurn}}

Members(gameID) == {r.userID : r \in Rows(gameID)}

OrderOf(gameID, userID) ==
    (CHOOSE r \in Rows(gameID) : r.userID = userID).playerOrder

Returned(p, op) == pc[p] = "done" /\ call[p].op = op

\* C1: a session never stores more participant records than its maximum,
\* whatever Join calls of distinct users run at the same time.
C1_AtMostMaxPlayers ==
    \A g \in 1..Len(games) : Cardinality(Rows(g)) <= games[g].maxPlayers

\* C2: no session ever holds two participant records of one user id, under
\* any interleaving of Join calls, those of one user included.
C2_OneRecordPerUser ==
    \A r1, r2 \in gamePlayers :
        (r1.gameID = r2.gameID /\ r1.userID = r2.userID) => r1 = r2

\* C2 witness: a Join of a user that raced another Join of the same user has
\* returned, refused by the store, and the user has one record.
C2_Witness ==
    \E p \in Procs :
        /\ Returned(p, "Join")
        /\ result[p].err = ErrStoreJoin
        /\ Cardinality({r \in Rows(call[p].gameID) : r.userID = call[p].userID}) = 1

\* C3: a Join that found the session Waiting with free capacity returns
\* ParticipantJoined or AlreadyMember and nothing else, and no two Joins of
\* one (session, user) both return ParticipantJoined.
C3_JoinedOrAlreadyMember ==
    /\ \A p \in Procs :
         (Returned(p, "Join")
            /\ result[p].err \notin {ErrGameNotFound, ErrGameStarted, ErrGameFull})
         => (result[p].type = "player_joined" \/ result[p].err = ErrAlreadyInGame)
    /\ \A p, q \in Procs :
         (p # q /\ Returned(p, "Join") /\ Returned(q, "Join")
            /\ call[p].gameID = call[q].gameID /\ call[p].userID = call[q].userID)
         => ~(result[p].type = "player_joined" /\ result[q].type = "player_joined")

\* C4: at most one SetReady call of a session returns SessionStarted.
C4_StartedOnce ==
    \A p, q \in Procs :
        (p # q /\ Returned(p, "SetReady") /\ Returned(q, "SetReady")
           /\ call[p].gameID = call[q].gameID)
        => ~(result[p].type = "game_started" /\ result[q].type = "game_started")

\* C5: every EndTurn call that returns TurnAdvanced takes the turn from its
\* caller, who holds it when the call commits: of two calls issued for the same
\* turn only one advances it, so TurnAdvanced events and changes of the turn
\* holder are equal in number.
C5_OneAdvancePerTurn ==
    [][\A p \in Procs :
          (pc[p] = "NextTurn" /\ pc'[p] = "done")
          => Holders(call[p].gameID) = {call[p].userID}]_vars

\* C6: two Engine commands on the same session id are never both between their
\* first store read and their return.
InSection(p) == pc[p] \notin {"idle", "done", "GetGame"}

C6_MutualExclusion ==
    \A p, q \in Procs :
        (p # q /\ InSection(p) /\ InSection(q)) => call[p].gameID # call[q].gameID

\* C7: on an Active session of P participants the turn holder after K
\* successful EndTurn calls, each returned before the next was issued, is the
\* participant with join order K mod P; every TurnAdvanced event names as
\* current the participant next in join order after the caller, wrapping.
C7_RoundRobin ==
    /\ \A g \in 1..Len(games) :
         (Status(g) = StatusInProgress /\ Holders(g) # {})
         => \A r \in Rows(g) :
               r.isCurrentTurn <=> (r.playerOrder = advances[g] % Cardinality(Rows(g)))
    /\ \A p \in Procs :
         (Returned(p, "EndTurn") /\ result[p].type = "turn_changed")
         => LET g == call[p].gameID IN
            /\ result[p].previousPlayerID = call[p].userID
            /\ Holders(g) = {result[p].currentPlayerID}
            /\ OrderOf(g, result[p].currentPlayerID)
                 = (OrderOf(g, call[p].userID) + 1) % Cardinality(Rows(g))

\* C7 witness: a session of three whose turn has gone round once and on.
C7_Witness ==
    /\ Returned(1, "EndTurn")
    /\ result[1].type = "turn_changed"
    /\ Cardinality(Rows(1)) = 3
    /\ advances[1] = 4

\* C8: the scenario's six commands return, in order, ParticipantJoined (a),
\* ParticipantJoined (b, join order 1), ReadinessChanged with the session still
\* Waiting, SessionStarted with a the current participant, TurnAdvanced from a
\* to b, and NotYourTurn with b still the turn holder.
C8_Scenario ==
    pc[1] = "done" =>
        LET a == script.cmds[1].userID
            b == script.cmds[2].userID
            r == result[1]
        IN /\ games[1].maxPlayers = 2
           /\ calls = 1 => (r.type = "player_joined" /\ r.userID = a)
           /\ calls = 2 => (/\ r.type = "player_joined" /\ r.userID = b /\ r.order = 1
                            /\ OrderOf(1, b) = 1)
           /\ calls = 3 => (r.type = "player_ready" /\ Status(1) = StatusWaiting)
           /\ calls = 4 => (r.type = "game_started" /\ r.currentPlayerID = a)
           /\ calls = 5 => (/\ r.type = "turn_changed"
                            /\ r.previousPlayerID = a /\ r.currentPlayerID = b)
           /\ calls = 6 => (r.err = ErrNotYourTurn /\ Holders(1) = {b})

\* C8 witness: the scenario has run to its last command.
C8_Witness ==
    /\ pc[1] = "done"
    /\ calls = 6
    /\ result[1].err = ErrNotYourTurn
    /\ Status(1) = StatusInProgress

\* C9: a step of a Join call on an Active session, or on a Waiting session that
\* has its maximum of participants, adds no participant record, and the call
\* returns AlreadyStarted, respectively Full.
JoinStep(p) == call[p].op = "Join" /\ InFlight(p) /\ pc'[p] # pc[p]

C9_FullOrStarted ==
    [][\A p \in Procs :
          JoinStep(p) =>
            LET g == call[p].gameID IN
            /\ Status(g) = StatusInProgress
                 => /\ gamePlayers' = gamePlayers
                    /\ pc'[p] = "done" => result'[p].err = ErrGameStarted
            /\ (Status(g) = StatusWaiting
                  /\ Cardinality(Rows(g)) >= GetGame(g).maxPlayers)
                 => /\ gamePlayers' = gamePlayers
                    /\ pc'[p] = "done" => result'[p].err = ErrGameFull]_vars

\* C9 witness: a Join on an Active session has returned AlreadyStarted.
C9_Witness ==
    \E p \in Procs :
        /\ Returned(p, "Join")
        /\ result[p].err = ErrGameStarted
        /\ Status(call[p].gameID) = StatusInProgress

\* C10: a Join returns the first that applies of NotFound (no such session),
\* AlreadyStarted (status not Waiting), Full (participant count >= maximum) and
\* AlreadyMember (the user has a record), and succeeds when none applies.
C10_CheckOrder ==
    [][\A p \in Procs :
          (JoinStep(p) /\ pc'[p] = "done") =>
            LET g == call[p].gameID
                e == result'[p].err
            IN /\ (e = ErrGameNotFound) <=> (GetGame(g) = NilGame)
               /\ (e = ErrGameStarted)
                    <=> (GetGame(g) # NilGame /\ Status(g) # StatusWaiting)
               /\ (e = ErrGameFull)
                    <=> (/\ Status(g) = StatusWaiting
                         /\ Cardinality(Rows(g)) >= GetGame(g).maxPlayers)
               /\ (e = ErrAlreadyInGame)
                    <=> (/\ Status(g) = StatusWaiting
                         /\ Cardinality(Rows(g)) < GetGame(g).maxPlayers
                         /\ call[p].userID \in Members(g))
               /\ (result'[p].type = "player_joined")
                    <=> (/\ Status(g) = StatusWaiting
                         /\ Cardinality(Rows(g)) < GetGame(g).maxPlayers
                         /\ call[p].userID \notin Members(g))]_vars

\* C10 witness: a member of a full Waiting session joined again and got Full.
C10_Witness ==
    \E p \in Procs :
        /\ Returned(p, "Join")
        /\ result[p].err = ErrGameFull
        /\ Status(call[p].gameID) = StatusWaiting
        /\ call[p].userID \in Members(call[p].gameID)

\* C11: a successful SetReady returns SessionStarted exactly when, with its
\* flag stored, the session has at least 2 participants and all are ready; the
\* session is then Active and the participant of lowest join order holds the
\* turn; otherwise it returns ReadinessChanged and the session stays Waiting.
LowestOrder(gameID) ==
    {r.userID : r \in {x \in Rows(gameID) :
                         \A y \in Rows(gameID) : x.playerOrder <= y.playerOrder}}

C11_ReadyOutcome ==
    \A p \in Procs :
        (Returned(p, "SetReady") /\ result[p].err = "") =>
            LET g == call[p].gameID
                complete == /\ Cardinality(Rows(g)) >= 2
                            /\ \A r \in Rows(g) : r.isReady
            IN /\ result[p].type \in {"game_started", "player_ready"}
               /\ (result[p].type = "game_started") <=> complete
               /\ complete => /\ Status(g) = StatusInProgress
                              /\ Holders(g) = LowestOrder(g)
                              /\ Holders(g) = {result[p].currentPlayerID}
               /\ ~complete => /\ Status(g) = StatusWaiting
                               /\ Holders(g) = {}
                               /\ result[p].userID = call[p].userID
                               /\ result[p].isReady = call[p].isReady

\* C11 witness: the only participant of a session has set itself ready and got
\* ReadinessChanged.
C11_Witness ==
    \E p \in Procs :
        /\ Returned(p, "SetReady")
        /\ result[p].type = "player_ready"
        /\ Cardinality(Rows(call[p].gameID)) = 1
        /\ \A r \in Rows(call[p].gameID) : r.isReady

\* C12: every session has at most one participant with the turn flag set, and
\* none while its status is Waiting.
C12_TurnFlag ==
    \A g \in 1..Len(games) :
        /\ Cardinality({r \in Rows(g) : r.isCurrentTurn}) <= 1
        /\ Status(g) = StatusWaiting => Holders(g) = {}

\* C12 witness: an Active session whose turn has been passed on and is held by
\* one participant.
C12_Witness ==
    /\ Len(games) >= 1
    /\ Status(1) = StatusInProgress
    /\ advances[1] >= 1
    /\ Cardinality({r \in Rows(1) : r.isCurrentTurn}) = 1

\* C13 as stated: every EndTurn returns TurnAdvanced, NotStarted or
\* NotYourTurn, whatever the session id.
C13_ThreeOutcomes ==
    \A p \in Procs :
        Returned(p, "EndTurn") =>
            \/ result[p].type = "turn_changed"
            \/ result[p].err \in {ErrGameNotStarted, ErrNotYourTurn}

\* C13 amended: EndTurn returns NotFound when the session does not exist,
\* NotStarted when it exists and is not Active, NotYourTurn when it is Active
\* and the user does not hold the turn, TurnAdvanced otherwise; no step of a
\* rejected call changes a participant record.
EndTurnStep(p) == call[p].op = "EndTurn" /\ InFlight(p) /\ pc'[p] # pc[p]

C13_EndTurnOutcome ==
    [][\A p \in Procs :
          (EndTurnStep(p) /\ pc'[p] = "done") =>
            LET g == call[p].gameID
                e == result'[p].err
            IN /\ (e = ErrGameNotFound) <=> (GetGame(g) = NilGame)
               /\ (e = ErrGameNotStarted)
                    <=> (GetGame(g) # NilGame /\ Status(g) # StatusInProgress)
               /\ (e = ErrNotYourTurn)
                    <=> (/\ Status(g) = StatusInProgress
                         /\ Holders(g) # {call[p].userID})
               /\ (result'[p].type = "turn_changed")
                    <=> (/\ Status(g) = StatusInProgress
                         /\ Holders(g) = {call[p].userID})
               /\ e # "" => (gamePlayers' = gamePlayers /\ games' = games)]_vars

\* C13 witness: a participant of an Active session asked to end the turn after
\* it had moved on from it, and got NotYourTurn.
C13_Witness ==
    \E p \in Procs :
        /\ Returned(p, "EndTurn")
        /\ result[p].err = ErrNotYourTurn
        /\ Status(call[p].gameID) = StatusInProgress
        /\ advances[call[p].gameID] >= 1
        /\ call[p].userID \in Members(call[p].gameID)
        /\ call[p].userID \notin Holders(call[p].gameID)

\* C14: every connection has the events of its session put on its queue in
\* the order in which the Engine commands wrote them to the store.
C14_CommitOrder ==
    \A c \in Conns :
        \A i, j \in 1..Len(client[c].enq) :
            i < j => client[c].enq[i] < client[c].enq[j]

\* C15: a message of a Room.Broadcast is put on a queue only while that
\* Broadcast runs, only on a connection attached to its Room whose queue has
\* room, and once; when the loop is over every connection attached to the Room
\* has its copy or was found full.
Copies(m, q) == Cardinality({i \in 1..Len(q) : q[i] = m})

Broadcasting(p, c, m) ==
    /\ bcast[p].pc = "send"
    /\ bcast[p].msg = m
    /\ c \in roomList[bcast[p].room].clients

C15_OneCopyEach ==
    /\ [](\A p \in Procs :
            (bcast[p].pc = "send" /\ bcast[p].todo = {}) =>
                \A c \in roomList[bcast[p].room].clients :
                    IF c \in bcast[p].dropped
                        THEN Copies(bcast[p].msg, client[c].enq) = 0
                        ELSE Copies(bcast[p].msg, client[c].enq) = 1)
    /\ [][\A c \in Conns :
            /\ client'[c].enq # client[c].enq =>
                \E p \in Procs :
                    /\ Broadcasting(p, c, bcast[p].msg)
                    /\ Len(client[c].send) < SendCap
                    /\ Copies(bcast[p].msg, client[c].enq) = 0
                    /\ client'[c].enq = Append(client[c].enq, bcast[p].msg)
                    /\ client'[c].send = Append(client[c].send, bcast[p].msg)
            /\ \A p \in Procs :
                 (c \in bcast'[p].dropped /\ c \notin bcast[p].dropped
                    /\ bcast[p].pc = "send")
                 => Len(client[c].send) >= SendCap]_vars

\* C15 witness: a Broadcast is over that gave one connection its copy while
\* another connection had asked for the same Room and was not yet attached.
C15_Witness ==
    \E p \in Procs, c, d \in Conns :
        /\ bcast[p].pc = "done"
        /\ Copies(bcast[p].msg, client[c].enq) = 1
        /\ client[d].state = "room"
        /\ client[d].room = bcast[p].room
        /\ client[d].enq = <<>>

\* C16: a Broadcast in its loop can always take its next step, whatever the
\* queues hold, and it ends with a copy on every attached connection other than
\* those it found full.
C16_NeverWaits ==
    \A p \in Procs :
        bcast[p].pc = "send" =>
            /\ bcast[p].todo # {} => ENABLED BroadcastSend(p)
            /\ bcast[p].todo = {} =>
                 /\ ENABLED BroadcastEnd(p)
                 /\ \A c \in roomList[bcast[p].room].clients \ bcast[p].dropped :
                        \E i \in 1..Len(client[c].enq) : client[c].enq[i] = bcast[p].msg

\* C16 witness: a Broadcast is over that found one connection full and gave
\* another its copy.
C16_Witness ==
    \E p \in Procs, c, d \in Conns :
        /\ bcast[p].pc = "done"
        /\ c \in bcast[p].dropped
        /\ d \in bcast[p].start \ bcast[p].dropped
        /\ Copies(bcast[p].msg, client[d].enq) = 1
        /\ Copies(bcast[p].msg, client[c].enq) = 0

\* C17: no two Rooms were ever made for one game id, and the Room a GetRoom
\* call returned for a game id is the Room registered for it ever after.
C17_OneRoomPerGame ==
    /\ \A i, j \in 1..Len(roomList) :
         roomList[i].gameID = roomList[j].gameID => i = j
    /\ \A c \in Conns :
         client[c].room # 0 =>
            /\ rooms[client[c].gameID] = client[c].room
            /\ roomList[client[c].room].gameID = client[c].gameID

\* C17 witness: two connections asked for the Room of one game id, the second
\* after the first had been detached from it.
C17_Witness ==
    \E c, d \in Conns :
        /\ c # d
        /\ client[c].state = "closed"
        /\ client[d].state = "room"
        /\ client[c].room = client[d].room

\* C18: a send channel is never closed twice, and a connection RemoveClient
\* was called for, once or more, is in no Room and has its channel closed.
C18_DetachOnce ==
    \A c \in Conns :
        /\ client[c].closed <= 1
        /\ client[c].state = "closed" =>
             /\ client[c].closed = 1
             /\ \A r \in 1..Len(roomList) : c \notin roomList[r].clients

\* C18 witness: RemoveClient was called twice for one connection.
C18_Witness ==
    \E c \in Conns :
        /\ client[c].state = "closed"
        /\ removes >= 2
        /\ \A d \in Conns \ {c} : client[d].state # "closed"

\* C19: the send channel of a lobby connection is closed once, by the detach
\* of that connection: it is open while the connection is, and closed exactly
\* once when the connection has been detached.
C19_LobbyDetachOwn ==
    \A c \in Conns :
        /\ lclient[c].state = "open" => lclient[c].closed = 0
        /\ lclient[c].state = "closed" => lclient[c].closed = 1

\* C20: when the loop of a BroadcastUpdate is over, every lobby connection that
\* is open has the update on its queue or was found full.
C20_UpdateReachesAll ==
    \A p \in Procs :
        (lbcast[p].pc = "send" /\ lbcast[p].todo = {}) =>
            \A c \in Conns :
                lclient[c].state = "open" =>
                    \/ c \in lbcast[p].dropped
                    \/ \E i \in 1..Len(lclient[c].enq) : lclient[c].enq[i] = lbcast[p].msg

\* C28: no step of a GetState changes the store; it returns NotFound exactly
\* for a session id that is not positive or has no session, and otherwise the
\* stored status, the participants in join order and as turn holder the
\* participant whose turn flag is set, none when no flag is set.
Returns(p) == pc'[p] = "done" /\ (pc[p] # "done" \/ calls' # calls)

C28_GetStateView ==
    [][\A p \in Procs :
          /\ (call[p].op = "GetState" /\ InFlight(p) /\ pc'[p] # pc[p])
                => (games' = games /\ gamePlayers' = gamePlayers)
          /\ (Returns(p) /\ call'[p].op = "GetState") =>
                LET g == call'[p].gameID
                    r == result'[p]
                    n == Len(r.players)
                IN /\ games' = games /\ gamePlayers' = gamePlayers
                   /\ r.err \in {"", ErrGameNotFound}
                   /\ (r.err = ErrGameNotFound) <=> (g <= 0 \/ GetGame(g) = NilGame)
                   /\ r.err = "" =>
                        /\ r.status = Status(g)
                        /\ n = Cardinality(Rows(g))
                        /\ {r.players[i] : i \in 1..n} = Members(g)
                        /\ \A i \in 1..(n - 1) :
                              OrderOf(g, r.players[i]) < OrderOf(g, r.players[i + 1])
                        /\ IF Holders(g) = {}
                              THEN r.currentPlayerID = 0
                              ELSE Holders(g) = {r.currentPlayerID}]_vars

\* C28 witness: a GetState has returned the view of an Active session whose
\* turn is held by the second participant in join order.
C28_Witness ==
    \E p \in Procs :
        /\ Returned(p, "GetState")
        /\ result[p].status = StatusInProgress
        /\ Len(result[p].players) = 2
        /\ result[p].currentPlayerID = result[p].players[2]

\* C29: no caller is ever given the view of an Active session without a turn
\* holder.
C29_AtomicStart ==
    \A p \in Procs :
        (Returned(p, "GetState") /\ result[p].err = ""
            /\ result[p].status = StatusInProgress)
        => result[p].currentPlayerID # 0

\* C30: the join orders of the n participants of a session are the n values
\* 0..n-1.
C30_JoinOrders ==
    \A g \in 1..Len(games) :
        {r.playerOrder : r \in Rows(g)} = 0..(Cardinality(Rows(g)) - 1)

\* C22: a Join, SetReady or EndTurn that returned a store failure has left the
\* games that existed when it was issued, and all participant records, as they
\* were when it was issued.
C22_NoPartialState ==
    \A p \in Procs :
        (pc[p] = "done" /\ result[p].err = ErrStore) =>
            /\ gamePlayers = saved.gamePlayers
            /\ SubSeq(games, 1, Len(saved.games)) = saved.games

Rejections ==
    {ErrGameNotFound, ErrGameFull, ErrGameStarted, ErrAlreadyInGame,
     ErrUserNotInGame, ErrGameNotStarted, ErrNotYourTurn}

Rejected(p) ==
    handler[p].at = "engine" /\ pc[p] = "done" /\ result[p].err \in Rejections

\* C21: when a command has been rejected with one of the seven validation
\* errors the store is as it was when the command was issued and no event was
\* committed; the handler's next step starts no Broadcast, changes no store
\* record and no other connection, and puts at most one error message on the
\* queue of the connection that sent the frame (none for an HTTP request).
C21_RejectedCommand ==
    [][\A p \in Procs :
          Rejected(p) =>
            /\ games = saved.games
            /\ gamePlayers = saved.gamePlayers
            /\ handler[p].event = 0
            /\ handler'[p].at # "engine" =>
                 /\ handler'[p].at \in {"handled", "idle"}
                 /\ bcast' = bcast
                 /\ games' = games
                 /\ gamePlayers' = gamePlayers
                 /\ \A d \in Conns :
                      IF d = p /\ handler[p].frame # NoFrame
                         THEN \/ client'[d] = client[d]
                              \/ client'[d] =
                                   [client[d] EXCEPT !.send = Append(@, ErrorMsg),
                                                     !.enq = Append(@, ErrorMsg)]
                         ELSE client'[d] = client[d]]_vars

\* C21 witness: an end_turn of a user who does not hold the turn was rejected
\* and the error message is on the sender's queue, while the other connection
\* of the Room is open.
C21_Witness ==
    \E c, d \in Conns :
        /\ c # d
        /\ handler[c].at = "handled"
        /\ result[c].err = ErrNotYourTurn
        /\ client[c].send = <<ErrorMsg>>
        /\ client[d].state = "open"
        /\ client[d].send = <<>>

\* C23: a frame that is not a command (text that does not decode, or an
\* unknown type) has been answered with a private error message when its
\* handling is over, with no Engine command called and the connection open.
C23_DroppedWithReply ==
    \A c \in Conns :
        (handler[c].at = "handled" /\ handler[c].frame.type \in {"undecodable", "unknown"})
        => /\ handler[c].replied
           /\ ~handler[c].invoked
           /\ client[c].state = "open"

\* C24: once a ready frame is past its decoding, SetReady has been called for
\* it, with false when the payload's isReady is false and with true when it
\* is true, absent or not a boolean.
C24_ReadyPayload ==
    \A c \in Conns :
        (handler[c].frame.type = "ready" /\ handler[c].at # "decode")
        => /\ handler[c].invoked
           /\ call[c].op = "SetReady"
           /\ call[c].isReady = (handler[c].frame.isReady # "false")

\* C25: the step that detaches a connection leaves every other connection's
\* record and membership, the Rooms' registry, the store, and every command
\* and Broadcast under way as they were; a Broadcast that begins goes, with
\* the command's event, to all the connections of the Room that are open.
Detach(c) == client[c].state = "open" /\ client'[c].state = "closed"

C25_DetachFrame ==
    [][/\ \A c \in Conns :
            Detach(c) =>
              /\ \A d \in Conns \ {c} : client'[d] = client[d]
              /\ Len(roomList') = Len(roomList)
              /\ \A r \in 1..Len(roomList) :
                    /\ roomList'[r].clients = roomList[r].clients \ {c}
                    /\ roomList'[r].gameID = roomList[r].gameID
              /\ rooms' = rooms
              /\ games' = games /\ gamePlayers' = gamePlayers
              /\ pc' = pc /\ call' = call /\ loc' = loc /\ result' = result
              /\ bcast' = bcast /\ commits' = commits
              /\ \A p \in Procs : /\ handler'[p].at = handler[p].at
                                  /\ handler'[p].event = handler[p].event
       /\ \A p \in Procs :
            (bcast[p].pc # "send" /\ bcast'[p].pc = "send") =>
              /\ bcast'[p].msg = handler[p].event
              /\ bcast'[p].start = {d \in Conns : /\ client[d].state = "open"
                                                  /\ client[d].room = bcast'[p].room}]_vars

\* C25 witness: a connection was detached while the command of another
\* connection's frame was under way, and that command's event was broadcast
\* and is in the queue history of the connection that remains.
C25_Witness ==
    \E c, d \in Conns :
        /\ c # d
        /\ client[c].state = "closed"
        /\ client[c].room = client[d].room
        /\ handler[d].at = "handled"
        /\ handler[d].overlap
        /\ handler[d].event # 0
        /\ bcast[d].start = {d}
        /\ \E i \in 1..Len(client[d].enq) : client[d].enq[i] = handler[d].event

\* C27: when the handler of a committed join, readiness change or start is
\* at its end, every attached directory connection has been sent an update.
C27_DirectoryNotified ==
    \A p \in Procs :
        (/\ handler[p].event # 0
         /\ \/ handler[p].at = "handled"
            \/ handler[p].at = "loop" /\ bcast[p].pc = "done")
        => \A c \in LobbyTargets : lclient[c].enq # <<>>

\* C26: a Room connection and a directory connection whose peer has fallen
\* silent are each closed and detached in the end.
C26_SilentPeerClosed ==
    \A c \in Conns :
        /\ (client[c].state = "open" /\ client[c].peer = "silent")
              ~> (client[c].state = "closed" /\ ~Attached(client[c].room, c))
        /\ (lclient[c].state = "open" /\ lclient[c].peer = "silent")
              ~> (lclient[c].state = "closed")

\* C40: the game that Lobby.CreateGame stores has status waiting, no
\* participants, and as its size the requested size when that is within 2..8,
\* 2 when it is below and 8 when it is above.
C40_CreateClamp ==
    [][Len(games') = Len(games) + 1 =>
          LET id == Len(games')
              g == games'[id]
              r == script.maxPlayers
          IN /\ SubSeq(games', 1, Len(games)) = games
             /\ g.status = StatusWaiting
             /\ {x \in gamePlayers' : x.gameID = id} = {}
             /\ g.maxPlayers \in 2..8
             /\ (r < 2 => g.maxPlayers = 2)
             /\ (r > 8 => g.maxPlayers = 8)
             /\ (r \in 2..8 => g.maxPlayers = r)]_vars

\* C40 witness: one game was created from a request below 2 and one from a
\* request above 8.
C40_Witness ==
    /\ Len(games) = 2
    /\ games[1].maxPlayers = 2
    /\ games[2].maxPlayers = 8
    /\ script.maxPlayers > 8

\* C34: a game whose status is in_progress keeps that status, and no SetReady
\* writes a ready flag of a game whose status is in_progress.
C34_StatusForward ==
    [][/\ \A g \in 1..Len(games) :
            Status(g) = StatusInProgress => games'[g].status = StatusInProgress
       /\ \A p \in Procs :
            (pc[p] = "UpdatePlayerReady" /\ pc'[p] # pc[p])
               => Status(call[p].gameID) # StatusInProgress]_vars

\* C35: every participant of a game whose status is in_progress is ready, and
\* no step adds a participant to such a game.
C35_StartedAsValidated ==
    [][\A g \in 1..Len(games) :
          Status(g) = StatusInProgress =>
             /\ \A r \in Rows(g) : r.isReady
             /\ {r.userID : r \in {x \in gamePlayers' : x.gameID = g}} = Members(g)]_vars

C36_ActsAsConnectionUser ==
    [][\A c \in Conns :
          (handler[c].at = "engine" /\ handler[c].frame # NoFrame /\ pc'[c] # pc[c]) =>
            LET me == client[c].userID
                g == call[c].gameID
            IN /\ call[c].userID = me
               /\ call[c].op = "SetReady" =>
                    \A r \in Rows(g) :
                       r.userID # me =>
                          \E x \in gamePlayers' : /\ x.gameID = g
                                                  /\ x.userID = r.userID
                                                  /\ x.isReady = r.isReady
               /\ (call[c].op = "EndTurn" /\ gamePlayers' # gamePlayers) =>
                    Holders(g) = {me}
               /\ me \notin Members(g) =>
                    (games' = games /\ gamePlayers' = gamePlayers)]_vars

\* C36 witness: a ready frame whose payload names the other user has been
\* handled; the flag of the connection's user is set, the other user's is not.
C36_Witness ==
    \E c \in Conns :
        /\ handler[c].at = "handled"
        /\ handler[c].frame.type = "ready"
        /\ handler[c].frame.user \notin {0, client[c].userID}
        /\ handler[c].event # 0
        /\ \E r \in Rows(1) : r.userID = client[c].userID /\ r.isReady
        /\ \E r \in Rows(1) : r.userID = handler[c].frame.user /\ ~r.isReady

\* C38: the store calls of a command change no row of another game, and a
\* message that is put on a connection's queue is the error reply to that
\* connection or the event of a command on the game of the connection's Room.
C38_SessionsIsolated ==
    [][/\ \A p \in Procs :
            (handler[p].at = "engine" /\ pc'[p] # pc[p]) =>
               \A g \in 1..Len(games) :
                  g # call[p].gameID =>
                     /\ games'[g] = games[g]
                     /\ {x \in gamePlayers' : x.gameID = g} = Rows(g)
       /\ \A d \in Conns :
            client'[d].enq # client[d].enq =>
               LET m == client'[d].enq[Len(client'[d].enq)] IN
               \/ m = ErrorMsg /\ handler[d].at \in {"decode", "engine"}
               \/ \E p \in Procs :
                     /\ bcast[p].pc = "send"
                     /\ bcast[p].msg = m
                     /\ handler[p].event = m
                     /\ d \in roomList[bcast[p].room].clients
                     /\ roomList[bcast[p].room].gameID = call[p].gameID]_vars

\* C38 witness: the ready frame of user 1's connection has started game 1;
\* the event is in that connection's queue history, the connection of game
\* 2's Room has been sent nothing, and game 2's turn is still at user 2.
C38_Witness ==
    /\ Len(games) = 2
    /\ handler[1].at = "handled"
    /\ result[1].type = "game_started"
    /\ client[1].enq = <<handler[1].event>>
    /\ client[2].state = "open"
    /\ client[2].room # client[1].room
    /\ client[2].enq = <<>>
    /\ Holders(2) = {2}
    /\ Holders(1) = {1}

\* C33: a connection whose read pump got a read error is in the end detached
\* with its queue closed and its write pump returned, and a connection whose
\* write pump returned on a write error is in the end detached.
C33_PumpsTerminate ==
    \A c \in Conns :
        /\ (client[c].rp = "failed") ~>
              (/\ client[c].state = "closed"
               /\ client[c].closed = 1
               /\ \A r \in 1..Len(roomList) : c \notin roomList[r].clients
               /\ client[c].wp \in {"done", "failed"})
        /\ (client[c].wp = "failed") ~>
              (/\ client[c].state = "closed"
               /\ client[c].rp = "done"
               /\ \A r \in 1..Len(roomList) : c \notin roomList[r].clients)

\* C33 witness: a read error on a connection with a queued message; the
\* connection was detached, the write pump sent the message, found the queue
\* closed and returned.
C33_Witness ==
    \E c \in Conns :
        /\ client[c].rp = "done"
        /\ client[c].wp = "done"
        /\ client[c].closed = 1
        /\ client[c].out # <<>>

\* C37: no sender is ever about to offer a message to a closed queue: not a
\* Room.Broadcast or a BroadcastUpdate in its loop, whose remaining targets
\* all have open queues, and not a read pump that may still send its private
\* error reply.
C37_NoSendOnClosed ==
    /\ \A p \in Procs :
          bcast[p].pc = "send" => \A c \in bcast[p].todo : client[c].closed = 0
    /\ \A p \in Procs :
          lbcast[p].pc = "send" => \A c \in lbcast[p].todo : lclient[c].closed = 0
    /\ \A c \in Conns :
          (client[c].state = "open" /\ client[c].rp = "read") => client[c].closed = 0

\* C37 witness: a Broadcast is in its loop with a target left while another
\* connection of the same Room, which was sent a message before, has been
\* detached and its queue closed.
C37_Witness ==
    \E p \in Procs, d \in Conns :
        /\ bcast[p].pc = "send"
        /\ bcast[p].todo # {}
        /\ client[d].closed = 1
        /\ client[d].room = bcast[p].room
        /\ client[d].enq # <<>>

\* The messages of a sequence of frames, in the order they were written
RECURSIVE Flat(_)
Flat(frames) == IF frames = <<>> THEN <<>> ELSE Head(frames) \o Flat(Tail(frames))

Rank(state) ==
    CASE state = "none" -> 0
      [] state = "created" -> 1
      [] state = "room" -> 2
      [] state = "open" -> 3
      [] state = "closed" -> 4

\* C32: a connection goes from created to attached to detached and never
\* back; the Room it is given never changes and is the only Room that ever
\* holds it; its pumps move only once it has been attached; and once it is
\* detached no Room holds it and nothing is put on its queue.
C32_Lifecycle ==
    [][\A c \in Conns :
          /\ Rank(client'[c].state) >= Rank(client[c].state)
          /\ client[c].room # 0 => client'[c].room = client[c].room
          /\ \A r \in 1..Len(roomList') :
                c \in roomList'[r].clients =>
                   r = client'[c].room /\ client'[c].state = "open"
          /\ (\/ <<client'[c].rp, client'[c].wp, client'[c].w, client'[c].out>>
                    # <<client[c].rp, client[c].wp, client[c].w, client[c].out>>
              \/ client'[c].enq # client[c].enq)
                => (client[c].state \in {"open", "closed"}
                    /\ client[c].room # 0)
          /\ client[c].state = "closed" =>
                /\ client'[c].enq = client[c].enq
                /\ client'[c].closed = 1
                /\ \A r \in 1..Len(roomList') : c \notin roomList'[r].clients]_vars

\* C32 witness: two connections in two Rooms, one still attached and one that
\* was sent a message, was detached and whose pumps have returned.
C32_Witness ==
    \E c, d \in Conns :
        /\ client[c].state = "open"
        /\ client[d].state = "closed"
        /\ client[c].room # client[d].room
        /\ c \in roomList[client[c].room].clients
        /\ client[d].enq # <<>>
        /\ client[d].rp = "done"
        /\ client[d].wp = "done"

====
